---- MODULE Spec2Model ----
(***************************************************************************)
(* Rule evaluation engine of samber/do-template-cli (package jobs):        *)
(* filter, aggregate, validate and transform over rows of text fields,     *)
(* and the file entry points built on them.                                *)
(*                                                                         *)
(* Text is a sequence of one-character strings, so that case mapping,      *)
(* joining and number parsing are computed, not assumed.  A float64 is a   *)
(* reduced fraction [n, d].  A Go interface{} value is a record tagged     *)
(* with its dynamic type.  A Go error is the chain of its messages,        *)
(* outermost first; <<>> is nil.                                           *)
(***************************************************************************)
EXTENDS Integers, Sequences, FiniteSets, TLC

VARIABLES
    rows,   \* the row set: the `input` argument, or the content of the input file
    rules,  \* the caller's rule list
    opt,    \* the caller's flags and the behaviour of the file collaborator
    done,   \* the operations that have run on these inputs
    out     \* what they returned

vars == <<rows, rules, opt, done, out>>

\* ------------------------------------------------------------------ bounds
MaxRows == 3
MaxRules == 2

\* ------------------------------------------------------------------ text
UpperLetters == <<"A","B","C","D","E","F","G","H","I","J","K","L","M",
                  "N","O","P","Q","R","S","T","U","V","W","X","Y","Z">>
LowerLetters == <<"a","b","c","d","e","f","g","h","i","j","k","l","m",
                  "n","o","p","q","r","s","t","u","v","w","x","y","z">>
Digits == <<"0","1","2","3","4","5","6","7","8","9">>

IndexIn(c, table) == CHOOSE i \in DOMAIN table : table[i] = c
IsIn(c, table) == \E i \in DOMAIN table : table[i] = c

ToLowerChar(c) == IF IsIn(c, UpperLetters) THEN LowerLetters[IndexIn(c, UpperLetters)] ELSE c
ToUpperChar(c) == IF IsIn(c, LowerLetters) THEN UpperLetters[IndexIn(c, LowerLetters)] ELSE c

\* strings.ToLower / strings.ToUpper
ToLower(s) == [i \in DOMAIN s |-> ToLowerChar(s[i])]
ToUpper(s) == [i \in DOMAIN s |-> ToUpperChar(s[i])]

\* strings.EqualFold
EqualFold(a, b) == Len(a) = Len(b) /\ ToLower(a) = ToLower(b)

\* strings.HasPrefix / HasSuffix / Contains
HasPrefix(s, p) == Len(p) <= Len(s) /\ SubSeq(s, 1, Len(p)) = p
HasSuffix(s, p) == Len(p) <= Len(s) /\ SubSeq(s, Len(s) - Len(p) + 1, Len(s)) = p
Contains(s, p) == \E k \in 0..(Len(s) - Len(p)) : SubSeq(s, k + 1, k + Len(p)) = p

\* strings.Join
RECURSIVE Join(_, _)
Join(parts, sep) ==
    IF Len(parts) = 0 THEN <<>>
    ELSE IF Len(parts) = 1 THEN parts[1]
    ELSE parts[1] \o sep \o Join(Tail(parts), sep)

\* ------------------------------------------------------------------ float64
RECURSIVE Gcd(_, _)
Gcd(a, b) == IF b = 0 THEN a ELSE Gcd(b, a % b)
Abs(x) == IF x < 0 THEN -x ELSE x

\* the float64 n/d, reduced
reduce(n, d, g) == [n |-> n \div g, d |-> d \div g]
Float(n, d) == reduce(n, d, Gcd(Abs(n), d))
\* math.MaxFloat64 and -math.MaxFloat64, written with denominator 0: they
\* compare above and below every number the model can sum up
MaxFloat64 == [n |-> 1, d |-> 0]
NegMaxFloat64 == [n |-> -1, d |-> 0]
FloatEq(a, b) == IF a.d = 0 \/ b.d = 0 THEN a = b ELSE a.n * b.d = b.n * a.d
FloatLess(a, b) ==
    CASE a.d = 0 /\ b.d = 0 -> a.n < b.n
      [] a.d = 0 -> a.n < 0
      [] b.d = 0 -> b.n > 0
      [] OTHER -> a.n * b.d < b.n * a.d
FloatAdd(a, b) == Float(a.n * b.d + b.n * a.d, a.d * b.d)
FloatDiv(a, k) == Float(a.n, a.d * k)
FloatSub(a, b) == Float(a.n * b.d - b.n * a.d, a.d * b.d)
FloatMul(a, b) == Float(a.n * b.n, a.d * b.d)
\* a / b for b # 0
FloatQuo(a, b) == IF b.n > 0 THEN Float(a.n * b.d, a.d * b.n) ELSE Float(-(a.n * b.d), a.d * (-b.n))
FloatOfInt(k) == [n |-> k, d |-> 1]

RECURSIVE DigitsValue(_)
DigitsValue(s) ==
    IF Len(s) = 0 THEN 0
    ELSE 10 * DigitsValue(SubSeq(s, 1, Len(s) - 1)) + (IndexIn(s[Len(s)], Digits) - 1)
RECURSIVE Pow10(_)
Pow10(k) == IF k = 0 THEN 1 ELSE 10 * Pow10(k - 1)
AllDigits(s) == \A i \in DOMAIN s : IsIn(s[i], Digits)

\* strconv.ParseFloat(s, 64) on decimal text: [sign] digits [. digits], with
\* at least one digit.  Text holding any other character is a syntax error
\* (the rows and rules of the model spell no exponent, "inf", "nan" or hex).
parseParts(neg, ip, fp) ==
    IF AllDigits(ip) /\ AllDigits(fp) /\ Len(ip) + Len(fp) > 0
    THEN [err |-> FALSE,
          val |-> Float((IF neg THEN -1 ELSE 1)
                          * (DigitsValue(ip) * Pow10(Len(fp)) + DigitsValue(fp)),
                        Pow10(Len(fp)))]
    ELSE [err |-> TRUE, val |-> FloatOfInt(0)]
\* dot is the place of the first ".", 0 when there is none; a second "."
\* stays in the fraction, which is then no digit string
parseBody(neg, body, dot) ==
    IF dot = 0 THEN parseParts(neg, body, <<>>)
    ELSE parseParts(neg, SubSeq(body, 1, dot - 1), SubSeq(body, dot + 1, Len(body)))
FirstDot(body) ==
    IF \E i \in DOMAIN body : body[i] = "."
    THEN CHOOSE i \in DOMAIN body : body[i] = "." /\ \A j \in 1..(i - 1) : body[j] # "."
    ELSE 0
parseSigned(neg, body) == parseBody(neg, body, FirstDot(body))
ParseFloat(s) ==
    IF Len(s) > 0 /\ s[1] \in {"+", "-"} THEN parseSigned(s[1] = "-", Tail(s))
    ELSE parseSigned(FALSE, s)

RECURSIVE Itoa(_)
\* strconv.Itoa
Itoa(k) ==
    IF k < 0 THEN <<"-">> \o Itoa(-k)
    ELSE IF k < 10 THEN <<Digits[k + 1]>>
    ELSE Itoa(k \div 10) \o <<Digits[(k % 10) + 1]>>

\* ------------------------------------------------------------------ interface{}
\* A Go interface{} value with its dynamic type: s is the string, f the
\* float64, i the int or int64, b the bool, elems the elements of a slice
\* and m the map of a map[string]interface{}.
Value(t, s, f, i, b) == [t |-> t, s |-> s, f |-> f, i |-> i, b |-> b]
NilV == Value("nil", <<>>, FloatOfInt(0), 0, FALSE)
StrV(s) == Value("string", s, FloatOfInt(0), 0, FALSE)
FloatV(f) == Value("float64", <<>>, f, 0, FALSE)
IntV(i) == Value("int", <<>>, FloatOfInt(0), i, FALSE)
Int64V(i) == Value("int64", <<>>, FloatOfInt(0), i, FALSE)
BoolV(b) == Value("bool", <<>>, FloatOfInt(0), 0, b)

\* the number of decimals of a float64 that is a decimal fraction of at most
\* 6 decimals; 7 stands for a longer expansion
Decimals(f) ==
    IF \E k \in 0..6 : Pow10(k) % f.d = 0
    THEN CHOOSE k \in 0..6 : Pow10(k) % f.d = 0 /\ \A j \in 0..(k - 1) : Pow10(j) % f.d # 0
    ELSE 7
RECURSIVE PadLeft(_, _)
PadLeft(s, width) == IF Len(s) >= width THEN s ELSE PadLeft(<<"0">> \o s, width)

\* strconv.FormatFloat(f, 'g', -1, 64), the %v of a float64: the shortest
\* decimal text that reads back as f.  An expansion longer than 6 decimals is
\* written with its first 4 decimals and the mark "~" for the rest.
formatScaled(neg, scaled, k, long) ==
    (IF neg THEN <<"-">> ELSE <<>>)
    \o Itoa(scaled \div Pow10(k))
    \o (IF k = 0 THEN <<>> ELSE <<".">> \o PadLeft(Itoa(scaled % Pow10(k)), k))
    \o (IF long THEN <<"~">> ELSE <<>>)
formatDecimals(f, k, long) == formatScaled(f.n < 0, (Abs(f.n) * Pow10(k)) \div f.d, k, long)
formatPlaces(f, places) ==
    IF places = 7 THEN formatDecimals(f, 4, TRUE) ELSE formatDecimals(f, places, FALSE)
FormatFloat(f) ==
    IF f.d = 0
    THEN (IF f.n < 0 THEN <<"-">> ELSE <<>>)
         \o <<"1",".","7","9","7","6","9","3","1","3","4","8","6","2","3","1","5","7",
              "e","+","3","0","8">>
    ELSE formatPlaces(f, Decimals(f))

\* fmt.Sprintf("%.2f", f): two decimals, rounded to nearest (the sums and
\* averages of the model never lie halfway between two such texts)
fixed2(neg, scaled) ==
    (IF neg /\ scaled > 0 THEN <<"-">> ELSE <<>>)
    \o Itoa(scaled \div 100) \o <<".">> \o PadLeft(Itoa(scaled % 100), 2)
FormatFixed2(f) == fixed2(f.n < 0, (Abs(f.n) * 200 + f.d) \div (2 * f.d))

\* fmt.Sprintf("%v", v)
Sprintv(v) ==
    CASE v.t = "string" -> v.s
      [] v.t = "float64" -> FormatFloat(v.f)
      [] v.t \in {"int", "int64"} -> Itoa(v.i)
      [] v.t = "bool" -> IF v.b THEN <<"t","r","u","e">> ELSE <<"f","a","l","s","e">>
      [] OTHER -> <<"<","n","i","l",">">>

\* ------------------------------------------------------------------ regexp
\* The patterns of the model are a literal of letters and digits, optionally
\* anchored with ^ and $, in which one part may be a capture group ( ); a
\* pattern whose parentheses do not pair does not compile.
RegexpCompileError(pattern) ==
    LET opens == {i \in DOMAIN pattern : pattern[i] = "("}
        closes == {i \in DOMAIN pattern : pattern[i] = ")"}
    IN  \/ Cardinality(opens) # Cardinality(closes)
        \/ Cardinality(opens) > 1
        \/ \E i \in opens, j \in closes : j < i
\* the literal a compiled pattern spells, anchors and parentheses left out
RegexpLiteral(pattern) == SelectSeq(pattern, LAMBDA c : c \notin {"^", "$", "(", ")"})
matchLiteral(head, tail, lit, s) ==
    CASE head /\ tail -> s = lit
      [] head -> HasPrefix(s, lit)
      [] tail -> HasSuffix(s, lit)
      [] OTHER -> Contains(s, lit)
RegexpMatchString(pattern, s) ==
    matchLiteral(Len(pattern) > 0 /\ pattern[1] = "^",
                 Len(pattern) > 0 /\ pattern[Len(pattern)] = "$",
                 RegexpLiteral(pattern), s)
\* regexp.FindStringSubmatch: nil without a match, else the matched text and
\* the text of the capture group
FindStringSubmatch(pattern, s) ==
    LET opens == {i \in DOMAIN pattern : pattern[i] = "("}
        closes == {i \in DOMAIN pattern : pattern[i] = ")"}
    IN  IF ~RegexpMatchString(pattern, s) THEN <<>>
        ELSE <<RegexpLiteral(pattern)>>
             \o (IF opens = {} THEN <<>>
                 ELSE <<SubSeq(pattern, (CHOOSE i \in opens : TRUE) + 1,
                               (CHOOSE j \in closes : TRUE) - 1)>>)

\* ------------------------------------------------------------------ rows
\* DataRow: Fields maps the names a row has to their text
Has(row, field) == field \in DOMAIN row
\* row.Fields[field], "" for a missing key
FieldOf(row, field) == IF Has(row, field) THEN row[field] ELSE <<>>

\* an error chain: nil, a new error, and fmt.Errorf("context: %w", err)
NoError == <<>>
Wrap(context, err) == <<context>> \o err

\* ------------------------------------------------------------------ FileService
\* ReadCSV(path): the file collaborator either fails to open the file or
\* returns the rows the file holds
ReadCSV(fsys, path) ==
    IF fsys.readOK
    THEN [data |-> fsys.content, err |-> NoError]
    ELSE [data |-> <<>>, err |-> <<"failed to open file">>]
\* WriteJSON(path, data)
WriteJSON(fsys, path, data) ==
    IF fsys.writeOK THEN NoError ELSE <<"failed to create file">>
ReadEvent(path) == [op |-> "ReadCSV", path |-> path, data |-> <<>>]
WriteEvent(path, data) == [op |-> "WriteJSON", path |-> path, data |-> data]
\* a caller that works in memory: no file is named, none is touched
NoFiles == [content |-> <<>>, readOK |-> FALSE, writeOK |-> FALSE]
\* the read step every ProcessData starts with: the rows to work on are the
\* input, or the rows of the input file when the input is empty and a file
\* is named; io is the request made and err the error of ReadCSV
readInput(input, inputFile, fsys) ==
    IF Len(input) = 0 /\ inputFile # <<>>
    THEN [data |-> ReadCSV(fsys, inputFile).data, err |-> ReadCSV(fsys, inputFile).err,
          io |-> <<ReadEvent(inputFile)>>]
    ELSE [data |-> input, err |-> NoError, io |-> <<>>]

\* ------------------------------------------------------------------ FilterService
FilterRule(field, operator, value) == [Field |-> field, Operator |-> operator, Value |-> value]

\* m[key].(string), "" when the key is missing or not a string
getString(m, key) == IF m[key].t = "string" THEN m[key].s ELSE <<>>

\* the numeric case of compareValues: num is the field value parsed
compareNumber(num, b) ==
    IF ~num.err
    THEN CASE b.t = "float64" -> FloatEq(num.val, b.f)
           [] b.t = "int" -> FloatEq(num.val, FloatOfInt(b.i))
           [] OTHER -> FALSE
    ELSE FALSE
compareValues(a, b) ==
    CASE b.t = "string" -> EqualFold(a, b.s)
      [] b.t \in {"int", "int64", "float64"} -> compareNumber(ParseFloat(a), b)
      [] OTHER -> a = Sprintv(b)

\* the comparison of numericCompare once both sides are numbers
numericOrder(aNum, bNum, greater) ==
    IF greater THEN FloatLess(bNum, aNum) ELSE FloatLess(aNum, bNum)
\* slip: a side that fails to parse counts as 0
numericParsed_ZeroOnError(aNum, bNum, greater) ==
    numericOrder(IF aNum.err THEN FloatOfInt(0) ELSE aNum.val,
                 IF bNum.err THEN FloatOfInt(0) ELSE bNum.val, greater)
\* bNum is the rule value as a number: itself, or its text parsed
numericParsed(aNum, bNum, greater) ==
    ~aNum.err /\ ~bNum.err /\ numericOrder(aNum.val, bNum.val, greater)
numericCompare(a, b, greater) ==
    CASE b.t \in {"float64", "int", "string"} ->
            numericParsed(ParseFloat(a),
                          CASE b.t = "float64" -> [err |-> FALSE, val |-> b.f]
                            [] b.t = "int" -> [err |-> FALSE, val |-> FloatOfInt(b.i)]
                            [] OTHER -> ParseFloat(b.s),
                          greater)
      [] OTHER -> FALSE

\* the operators that compare lower-cased text: lowField is the field value
\* and lowValue the %v text of the rule value, both lower-cased
matchesText(operator, lowField, lowValue) ==
    CASE operator = <<"c","o","n","t","a","i","n","s">> -> Contains(lowField, lowValue)
      [] operator = <<"n","o","t","_","c","o","n","t","a","i","n","s">> ->
            ~Contains(lowField, lowValue)
      [] operator = <<"s","t","a","r","t","s","_","w","i","t","h">> -> HasPrefix(lowField, lowValue)
      [] OTHER -> HasSuffix(lowField, lowValue)
\* the switch of matchesRule on a row that has the field
matchesValue(fieldValue, rule) ==
    CASE rule.Operator \in {<<"e","q","u","a","l","s">>,
                            <<"n","o","t","_","e","q","u","a","l","s">>} ->
            (rule.Operator = <<"e","q","u","a","l","s">>) = compareValues(fieldValue, rule.Value)
      [] rule.Operator \in {<<"c","o","n","t","a","i","n","s">>,
                            <<"n","o","t","_","c","o","n","t","a","i","n","s">>,
                            <<"s","t","a","r","t","s","_","w","i","t","h">>,
                            <<"e","n","d","s","_","w","i","t","h">>} ->
            matchesText(rule.Operator, ToLower(fieldValue), ToLower(Sprintv(rule.Value)))
      [] rule.Operator = <<"r","e","g","e","x">> ->
            IF rule.Value.t = "string"
            THEN ~RegexpCompileError(rule.Value.s) /\ RegexpMatchString(rule.Value.s, fieldValue)
            ELSE FALSE
      [] rule.Operator \in {<<"g","r","e","a","t","e","r","_","t","h","a","n">>,
                            <<"l","e","s","s","_","t","h","a","n">>} ->
            numericCompare(fieldValue, rule.Value,
                           rule.Operator = <<"g","r","e","a","t","e","r","_","t","h","a","n">>)
      [] OTHER -> FALSE
\* slip: a missing field is read as the empty text
matchesRule_MissingIsEmpty(row, rule) == matchesValue(FieldOf(row, rule.Field), rule)
matchesRule(row, rule) ==
    IF ~Has(row, rule.Field) THEN FALSE ELSE matchesValue(row[rule.Field], rule)

\* slip: the loop returns the verdict of the first rule
matchesAllRules_FirstOnly(row, ruleList) ==
    IF Len(ruleList) = 0 THEN TRUE ELSE matchesRule(row, Head(ruleList))
RECURSIVE matchesAllRules(_, _)
matchesAllRules(row, ruleList) ==
    IF Len(ruleList) = 0 THEN TRUE
    ELSE IF ~matchesRule(row, Head(ruleList)) THEN FALSE
    ELSE matchesAllRules(row, Tail(ruleList))

\* options["rules"].([]interface{}) with each element a map[string]interface{}:
\* any other dynamic type fails the assertion and leaves the rule list empty
RECURSIVE parseFilterRules(_)
parseFilterRules(elems) ==
    IF Len(elems) = 0 THEN <<>>
    ELSE (IF Head(elems).t = "map[string]interface{}"
          THEN <<FilterRule(getString(Head(elems).m, "field"),
                            getString(Head(elems).m, "operator"),
                            Head(elems).m.value)>>
          ELSE <<>>) \o parseFilterRules(Tail(elems))

parseFilterOptions(options) ==
    [InputFile |-> IF options.input_file.t = "string" THEN options.input_file.s ELSE <<>>,
     OutputFile |-> IF options.output_file.t = "string" THEN options.output_file.s ELSE <<>>,
     Inclusive |-> IF options.inclusive.t = "bool" THEN options.inclusive.b ELSE TRUE,
     Rules |-> IF options.rules.t = "[]interface{}" THEN parseFilterRules(options.rules.elems)
               ELSE <<>>]

\* slip: the exclusive branch forgets the match
includeRow_ExclusiveKeepsAll(inclusive, matches) == (inclusive /\ matches) \/ ~inclusive
\* slip: the flag is ignored
includeRow_IgnoresFlag(inclusive, matches) == matches
\* the test of ProcessData's loop: is the row kept
includeRow(inclusive, matches) == (inclusive /\ matches) \/ (~inclusive /\ ~matches)

\* slip: the loop stops one row early
RECURSIVE filterRows_StopsEarly(_, _)
filterRows_StopsEarly(input, opts) ==
    IF Len(input) <= 1 THEN <<>>
    ELSE (IF includeRow(opts.Inclusive, matchesAllRules(Head(input), opts.Rules))
          THEN <<Head(input)>> ELSE <<>>) \o filterRows_StopsEarly(Tail(input), opts)
\* the loop of ProcessData over the input rows
RECURSIVE filterRows(_, _)
filterRows(input, opts) ==
    IF Len(input) = 0 THEN <<>>
    ELSE (IF includeRow(opts.Inclusive, matchesAllRules(Head(input), opts.Rules))
          THEN <<Head(input)>> ELSE <<>>) \o filterRows(Tail(input), opts)

\* the write step of ProcessData and what it returns
filterWrite(opts, fsys, readIO, filteredData) ==
    IF opts.OutputFile = <<>>
    THEN [data |-> filteredData, err |-> NoError, io |-> readIO]
    ELSE IF WriteJSON(fsys, opts.OutputFile, filteredData) # NoError
    THEN [data |-> <<>>,
          err |-> Wrap("failed to write filtered data",
                       WriteJSON(fsys, opts.OutputFile, filteredData)),
          io |-> Append(readIO, WriteEvent(opts.OutputFile, filteredData))]
    ELSE [data |-> filteredData, err |-> NoError,
          io |-> Append(readIO, WriteEvent(opts.OutputFile, filteredData))]
\* slip: a failed read is taken for an empty input and processing goes on
filterRead_IgnoresReadError(opts, fsys, rd) ==
    filterWrite(opts, fsys, rd.io, filterRows(rd.data, opts))
\* ProcessData after the read step rd
filterRead(opts, fsys, rd) ==
    IF rd.err # NoError
    THEN [data |-> <<>>, err |-> Wrap("failed to read input file", rd.err), io |-> rd.io]
    ELSE filterWrite(opts, fsys, rd.io, filterRows(rd.data, opts))
filterWithOptions(input, opts, fsys) ==
    filterRead(opts, fsys, readInput(input, opts.InputFile, fsys))
\* FilterService.ProcessData: data and err are what it returns, io the
\* requests it made to the file collaborator, in order
Filter_ProcessData(input, options, fsys) ==
    filterWithOptions(input, parseFilterOptions(options), fsys)

\* ------------------------------------------------------------------ inputs
SeqsUpTo(S, n) == UNION {[1..k -> S] : k \in 0..n}
Occurrences(x, seq) == Cardinality({i \in DOMAIN seq : seq[i] = x})
Range(seq) == {seq[i] : i \in DOMAIN seq}

name == <<"n","a","m","e">>
age == <<"a","g","e">>
city == <<"c","i","t","y">>

\* rows with and without the field a rule names, numeric and not
FilterRowPool ==
    { (name :> <<"A","l">>) @@ (age :> <<"3","0">>),
      (name :> <<"b","o">>) @@ (age :> <<"1","7">>),
      (name :> <<"a","l">>),
      (age :> <<"1","7">>),
      (name :> <<>>) @@ (age :> <<"x">>) }

FilterRulePool ==
    { FilterRule(name, <<"e","q","u","a","l","s">>, StrV(<<"A","L">>)),
      FilterRule(age, <<"n","o","t","_","e","q","u","a","l","s">>, FloatV(FloatOfInt(30))),
      FilterRule(name, <<"c","o","n","t","a","i","n","s">>, StrV(<<"L">>)),
      FilterRule(name, <<"n","o","t","_","c","o","n","t","a","i","n","s">>, StrV(<<"b">>)),
      FilterRule(name, <<"s","t","a","r","t","s","_","w","i","t","h">>, StrV(<<"a">>)),
      FilterRule(age, <<"e","n","d","s","_","w","i","t","h">>, FloatV(FloatOfInt(7))),
      FilterRule(name, <<"r","e","g","e","x">>, StrV(<<"^","A">>)),
      FilterRule(name, <<"r","e","g","e","x">>, StrV(<<"(">>)),
      FilterRule(age, <<"g","r","e","a","t","e","r","_","t","h","a","n">>, FloatV(FloatOfInt(18))),
      FilterRule(age, <<"l","e","s","s","_","t","h","a","n">>, StrV(<<"1","8">>)),
      FilterRule(age, <<"l","e","s","s","_","t","h","a","n">>, StrV(<<"1","8","x">>)),
      FilterRule(name, <<"l","i","k","e">>, StrV(<<"a","l">>)) }

\* the options map a caller builds for an in-memory call: the rules as
\* []interface{} of map[string]interface{}, the form parseFilterOptions reads
RuleMaps(ruleList) ==
    [t |-> "[]interface{}",
     elems |-> [k \in DOMAIN ruleList |->
                  [t |-> "map[string]interface{}",
                   m |-> [field |-> StrV(ruleList[k].Field),
                          operator |-> StrV(ruleList[k].Operator),
                          value |-> ruleList[k].Value]]]]
FilterOptions(inputFile, outputFile, ruleSlice, inclusive) ==
    [input_file |-> StrV(inputFile), output_file |-> StrV(outputFile),
     rules |-> ruleSlice, inclusive |-> inclusive]

\* ------------------------------------------------------------------ filter in memory
NotRun == [data |-> <<>>, err |-> NoError, io |-> <<>>]

InitFilter ==
    /\ rows \in SeqsUpTo(FilterRowPool, MaxRows)
    /\ rules \in SeqsUpTo(FilterRulePool, MaxRules)
    /\ opt = [engine |-> "filter"]
    /\ done = {}
    /\ out = [incl |-> NotRun, excl |-> NotRun, again |-> NotRun]

\* filter(rows, rules, inclusive=true); leaving "inclusive" out is the same
FilterInclusive ==
    /\ "incl" \notin done
    /\ \E inclusive \in {BoolV(TRUE), NilV} :
          out' = [out EXCEPT !.incl =
                    Filter_ProcessData(rows, FilterOptions(<<>>, <<>>, RuleMaps(rules), inclusive),
                                       NoFiles)]
    /\ done' = done \cup {"incl"}
    /\ UNCHANGED <<rows, rules, opt>>

\* filter(rows, rules, inclusive=false)
FilterExclusive ==
    /\ "excl" \notin done
    /\ out' = [out EXCEPT !.excl =
                 Filter_ProcessData(rows, FilterOptions(<<>>, <<>>, RuleMaps(rules), BoolV(FALSE)),
                                    NoFiles)]
    /\ done' = done \cup {"excl"}
    /\ UNCHANGED <<rows, rules, opt>>

\* the inclusive output filtered once more with the same rules
FilterAgain ==
    /\ "incl" \in done /\ "again" \notin done
    /\ out' = [out EXCEPT !.again =
                 Filter_ProcessData(out.incl.data,
                                    FilterOptions(<<>>, <<>>, RuleMaps(rules), BoolV(TRUE)), NoFiles)]
    /\ done' = done \cup {"again"}
    /\ UNCHANGED <<rows, rules, opt>>

NextFilter == FilterInclusive \/ FilterExclusive \/ FilterAgain
SpecFilter == InitFilter /\ [][NextFilter]_vars

\* what the claims call "the row satisfies the rule"
Satisfies(row, rule) == matchesRule(row, rule)
SatisfiesAll(row) == \A k \in DOMAIN rules : Satisfies(row, rules[k])
SatisfiesSome(row) == \E k \in DOMAIN rules : Satisfies(row, rules[k])
\* a is b with some elements left out, order kept
SelectRows(seq, Test(_)) == SelectSeq(seq, Test)

\* C1: the inclusive and the exclusive output of the same rows and rules are
\* disjoint and together hold every input row exactly as often as the input
FilterComplement ==
    {"incl", "excl"} \subseteq done =>
        /\ out.incl.err = NoError /\ out.excl.err = NoError
        /\ Range(out.incl.data) \cap Range(out.excl.data) = {}
        /\ \A r \in Range(rows) \cup Range(out.incl.data) \cup Range(out.excl.data) :
              Occurrences(r, out.incl.data) + Occurrences(r, out.excl.data) = Occurrences(r, rows)
\* both outputs are non-empty: the split is a real one
FilterComplementWitness ==
    /\ {"incl", "excl"} \subseteq done
    /\ Len(out.incl.data) > 0 /\ Len(out.excl.data) > 0
    /\ Len(rules) > 0

\* C2: filtering the inclusive output again with the same rules returns the
\* same rows in the same order
FilterIdempotent ==
    "again" \in done => out.again.err = NoError /\ out.again.data = out.incl.data
\* the first pass dropped a row and kept one
FilterIdempotentWitness ==
    /\ "again" \in done
    /\ Len(out.incl.data) > 0 /\ Len(out.incl.data) < Len(rows)

\* C3: the inclusive output is the input rows that satisfy every rule, in
\* input order and as often; with no rule every row is kept
FilterInclusiveIsAnd ==
    "incl" \in done =>
        /\ out.incl.data = SelectRows(rows, SatisfiesAll)
        /\ (rules = <<>> => out.incl.data = rows)
\* a row that satisfies one rule of two is left out, another is kept
FilterInclusiveIsAndWitness ==
    /\ "incl" \in done
    /\ Len(rules) = 2
    /\ \E i \in DOMAIN rows : SatisfiesSome(rows[i]) /\ ~SatisfiesAll(rows[i])
    /\ Len(out.incl.data) > 0

\* C4 as stated: the exclusive output is the rows that satisfy none of the
\* rules, so a row satisfying at least one rule is not in it
FilterExclusiveIsNone ==
    "excl" \in done =>
        \A i \in DOMAIN rows : SatisfiesSome(rows[i]) => rows[i] \notin Range(out.excl.data)
\* C4 amended: the exclusive output is the input rows that do not satisfy
\* every rule (they fail at least one), in input order; rows satisfying all
\* the rules are left out, and with no rule the output is empty
FilterExclusiveIsNotAll ==
    "excl" \in done =>
        /\ out.excl.data = SelectRows(rows, LAMBDA r : ~SatisfiesAll(r))
        /\ (rules = <<>> => out.excl.data = <<>>)
\* a row satisfying one rule and failing another is in the exclusive output
FilterExclusiveIsNotAllWitness ==
    /\ "excl" \in done
    /\ \E i \in DOMAIN rows :
          /\ SatisfiesSome(rows[i]) /\ ~SatisfiesAll(rows[i])
          /\ rows[i] \in Range(out.excl.data)

\* the rule compares by order
IsOrdering(rule) ==
    rule.Operator \in {<<"g","r","e","a","t","e","r","_","t","h","a","n">>,
                       <<"l","e","s","s","_","t","h","a","n">>}
\* the rule value is a number or a text that parses as one
ValueIsNumber(v) ==
    \/ v.t \in {"float64", "int"}
    \/ v.t = "string" /\ ~ParseFloat(v.s).err
ValueNumber(v) ==
    CASE v.t = "float64" -> v.f
      [] v.t = "int" -> FloatOfInt(v.i)
      [] OTHER -> ParseFloat(v.s).val
\* both sides are numbers and the strict order of the rule holds
StrictOrderHolds(row, rule) ==
    /\ Has(row, rule.Field)
    /\ ~ParseFloat(row[rule.Field]).err
    /\ ValueIsNumber(rule.Value)
    /\ LET a == ParseFloat(row[rule.Field]).val
           b == ValueNumber(rule.Value)
       IN  IF rule.Operator = <<"g","r","e","a","t","e","r","_","t","h","a","n">>
           THEN a.n * b.d > b.n * a.d
           ELSE a.n * b.d < b.n * a.d

\* C12: a greater_than or less_than rule matches a row only when the field
\* value and the rule value both parse as numbers and the strict order
\* holds; a side that fails to parse gives no match and no error: a row is
\* kept by the inclusive filter only if every ordering rule holds for it,
\* with one ordering rule the kept rows are exactly those, and the
\* exclusive filter keeps the others
NumericFailClosed ==
    /\ "incl" \in done =>
          /\ out.incl.err = NoError
          /\ \A k \in DOMAIN rules : IsOrdering(rules[k]) =>
                \A i \in DOMAIN out.incl.data : StrictOrderHolds(out.incl.data[i], rules[k])
          /\ (Len(rules) = 1 /\ IsOrdering(rules[1])) =>
                out.incl.data = SelectSeq(rows, LAMBDA r : StrictOrderHolds(r, rules[1]))
    /\ "excl" \in done =>
          /\ out.excl.err = NoError
          /\ (Len(rules) = 1 /\ IsOrdering(rules[1])) =>
                out.excl.data = SelectSeq(rows, LAMBDA r : ~StrictOrderHolds(r, rules[1]))
\* one ordering rule over a row that holds, a row that does not and a row
\* whose value is no number; and a rule whose value is no number, which
\* keeps nothing
NumericFailClosedWitness ==
    /\ "incl" \in done /\ "excl" \in done
    /\ Len(rules) = 1 /\ IsOrdering(rules[1])
    /\ \/ /\ ValueIsNumber(rules[1].Value)
          /\ Len(out.incl.data) = 1 /\ Len(out.excl.data) = 2
          /\ \E i \in DOMAIN rows :
                Has(rows[i], rules[1].Field) /\ ParseFloat(rows[i][rules[1].Field]).err
          /\ \E i \in DOMAIN rows :
                /\ Has(rows[i], rules[1].Field) /\ ~ParseFloat(rows[i][rules[1].Field]).err
                /\ ~StrictOrderHolds(rows[i], rules[1])
       \/ /\ ~ValueIsNumber(rules[1].Value)
          /\ \E i \in DOMAIN rows :
                Has(rows[i], rules[1].Field) /\ ~ParseFloat(rows[i][rules[1].Field]).err
          /\ out.incl.data = <<>> /\ out.excl.data = rows

\* row i lacks the field that some rule names
LacksRuleField(i) == \E k \in DOMAIN rules : ~Has(rows[i], rules[k].Field)
RowsIn(data) == {data[k] : k \in DOMAIN data}

\* C29: a row that lacks the field named by a rule matches that rule for no
\* operator, the negated and the unknown ones included: the inclusive
\* filter leaves the row out and the exclusive filter keeps it
MissingFieldNeverMatches ==
    /\ \A i \in DOMAIN rows : \A k \in DOMAIN rules :
           ~Has(rows[i], rules[k].Field) => ~Satisfies(rows[i], rules[k])
    /\ "incl" \in done =>
          \A i \in DOMAIN rows : LacksRuleField(i) => rows[i] \notin RowsIn(out.incl.data)
    /\ "excl" \in done =>
          \A i \in DOMAIN rows : LacksRuleField(i) => rows[i] \in RowsIn(out.excl.data)
\* a row without the field of a not_contains rule and a row without the
\* field of a not_equals rule, both filtered out inclusively and kept
\* exclusively
MissingFieldNeverMatchesWitness ==
    /\ {"incl", "excl"} \subseteq done
    /\ Len(rules) = 2
    /\ rules[1].Operator = <<"n","o","t","_","c","o","n","t","a","i","n","s">>
    /\ rules[2].Operator = <<"n","o","t","_","e","q","u","a","l","s">>
    /\ \E i, j \in DOMAIN rows :
          /\ ~Has(rows[i], rules[1].Field) /\ Has(rows[i], rules[2].Field)
          /\ matchesValue(rows[i][rules[2].Field], rules[2])
          /\ ~Has(rows[j], rules[2].Field) /\ Has(rows[j], rules[1].Field)
          /\ matchesValue(rows[j][rules[1].Field], rules[1])
          /\ rows[i] \notin RowsIn(out.incl.data) /\ rows[i] \in RowsIn(out.excl.data)
          /\ rows[j] \notin RowsIn(out.incl.data) /\ rows[j] \in RowsIn(out.excl.data)

\* ------------------------------------------------------------------ AggregateService
Count == <<"c","o","u","n","t">>
Sum == <<"s","u","m">>
Average == <<"a","v","e","r","a","g","e">>
Min == <<"m","i","n">>
Max == <<"m","a","x">>
Distinct == <<"d","i","s","t","i","n","c","t">>

AggregateRule(field, operation, alias) == [Field |-> field, Operation |-> operation, Alias |-> alias]

\* a Go map: a function on the keys set so far
EmptyMap == [k \in {} |-> <<>>]
MapPut(m, key, val) == [k \in DOMAIN m \cup {key} |-> IF k = key THEN val ELSE m[k]]

RECURSIVE parseAggregateRules(_)
parseAggregateRules(elems) ==
    IF Len(elems) = 0 THEN <<>>
    ELSE (IF Head(elems).t = "map[string]interface{}"
          THEN <<AggregateRule(getString(Head(elems).m, "field"),
                               getString(Head(elems).m, "operation"),
                               getString(Head(elems).m, "alias"))>>
          ELSE <<>>) \o parseAggregateRules(Tail(elems))

\* options["group_by"].([]interface{}), keeping the elements that are strings
RECURSIVE parseGroupBy(_)
parseGroupBy(elems) ==
    IF Len(elems) = 0 THEN <<>>
    ELSE (IF Head(elems).t = "string" THEN <<Head(elems).s>> ELSE <<>>)
         \o parseGroupBy(Tail(elems))

parseAggregateOptions(options) ==
    [InputFile |-> IF options.input_file.t = "string" THEN options.input_file.s ELSE <<>>,
     OutputFile |-> IF options.output_file.t = "string" THEN options.output_file.s ELSE <<>>,
     Rules |-> IF options.rules.t = "[]interface{}" THEN parseAggregateRules(options.rules.elems)
               ELSE <<>>,
     GroupBy |-> IF options.group_by.t = "[]interface{}" THEN parseGroupBy(options.group_by.elems)
                 ELSE <<>>,
     SortBy |-> IF options.sort_by.t = "string" THEN options.sort_by.s ELSE <<>>,
     SortDesc |-> IF options.sort_desc.t = "bool" THEN options.sort_desc.b ELSE FALSE]

createGroupKey(row, groupBy) ==
    Join([k \in DOMAIN groupBy |-> FieldOf(row, groupBy[k])], <<"|">>)

\* slip: the row replaces the group instead of joining it
RECURSIVE groupData_Overwrites(_, _)
groupData_Overwrites(data, groupBy) ==
    IF Len(data) = 0 THEN EmptyMap
    ELSE LET groups == groupData_Overwrites(SubSeq(data, 1, Len(data) - 1), groupBy)
             row == data[Len(data)]
         IN  MapPut(groups, createGroupKey(row, groupBy), <<row>>)
\* groupData: the map from group key to the rows of the group, in input order
RECURSIVE groupData(_, _)
groupData(data, groupBy) ==
    IF Len(data) = 0 THEN EmptyMap
    ELSE LET groups == groupData(SubSeq(data, 1, Len(data) - 1), groupBy)
             row == data[Len(data)]
             key == createGroupKey(row, groupBy)
         IN  MapPut(groups, key, (IF key \in DOMAIN groups THEN groups[key] ELSE <<>>) \o <<row>>)

RECURSIVE calculateSum(_, _)
calculateSum(data, field) ==
    IF Len(data) = 0 THEN FloatOfInt(0)
    ELSE LET rest == calculateSum(SubSeq(data, 1, Len(data) - 1), field)
             val == ParseFloat(FieldOf(data[Len(data)], field))
         IN  IF ~val.err THEN FloatAdd(rest, val.val) ELSE rest

calculateAverage(data, field) ==
    IF Len(data) = 0 THEN FloatOfInt(0)
    ELSE FloatDiv(calculateSum(data, field), Len(data))

RECURSIVE minLoop(_, _, _)
minLoop(data, field, mIn) ==
    IF Len(data) = 0 THEN mIn
    ELSE LET val == ParseFloat(FieldOf(Head(data), field))
         IN  minLoop(Tail(data), field,
                     IF ~val.err /\ FloatLess(val.val, mIn) THEN val.val ELSE mIn)
calculateMin(data, field) ==
    IF Len(data) = 0 THEN FloatOfInt(0) ELSE minLoop(data, field, MaxFloat64)

RECURSIVE maxLoop(_, _, _)
maxLoop(data, field, mAx) ==
    IF Len(data) = 0 THEN mAx
    ELSE LET val == ParseFloat(FieldOf(Head(data), field))
         IN  maxLoop(Tail(data), field,
                     IF ~val.err /\ FloatLess(mAx, val.val) THEN val.val ELSE mAx)
calculateMax(data, field) ==
    IF Len(data) = 0 THEN FloatOfInt(0) ELSE maxLoop(data, field, NegMaxFloat64)

calculateDistinct(data, field) ==
    Cardinality({FieldOf(data[i], field) : i \in DOMAIN data})

applyAggregateRule(groupRows, rule) ==
    CASE rule.Operation = Count -> IntV(Len(groupRows))
      [] rule.Operation = Sum -> FloatV(calculateSum(groupRows, rule.Field))
      [] rule.Operation = Average -> FloatV(calculateAverage(groupRows, rule.Field))
      [] rule.Operation = Min -> FloatV(calculateMin(groupRows, rule.Field))
      [] rule.Operation = Max -> FloatV(calculateMax(groupRows, rule.Field))
      [] rule.Operation = Distinct -> Int64V(calculateDistinct(groupRows, rule.Field))
      [] OTHER -> NilV

aliasOf(rule) == IF rule.Alias = <<>> THEN rule.Field \o <<"_">> \o rule.Operation ELSE rule.Alias

\* the Aggregates map of one group: each rule stored under its alias, in order
RECURSIVE groupAggregates(_, _)
groupAggregates(groupRows, ruleList) ==
    IF Len(ruleList) = 0 THEN EmptyMap
    ELSE LET rule == ruleList[Len(ruleList)]
         IN  MapPut(groupAggregates(groupRows, SubSeq(ruleList, 1, Len(ruleList) - 1)),
                    aliasOf(rule), applyAggregateRule(groupRows, rule))

RECURSIVE groupValues(_, _)
groupValues(row, groupBy) ==
    IF Len(groupBy) = 0 THEN EmptyMap
    ELSE MapPut(groupValues(row, SubSeq(groupBy, 1, Len(groupBy) - 1)),
                groupBy[Len(groupBy)], FieldOf(row, groupBy[Len(groupBy)]))

\* the GroupResult processGroups builds for one key
GroupResult(key, groupRows, opts) ==
    [GroupKey |-> key,
     Count |-> Len(groupRows),
     GroupValues |-> IF Len(groupRows) > 0 THEN groupValues(groupRows[1], opts.GroupBy)
                     ELSE EmptyMap,
     Aggregates |-> groupAggregates(groupRows, opts.Rules)]

\* the sort key of sortGroupResults: a float64 or an int aggregate counts,
\* an int64 (distinct), a nil or a missing alias does not
sortValue(group, sortBy) ==
    LET present == sortBy \in DOMAIN group.Aggregates
        v == IF present THEN group.Aggregates[sortBy] ELSE NilV
    IN  CASE v.t = "float64" -> [ok |-> TRUE, val |-> v.f]
          [] v.t = "int" -> [ok |-> TRUE, val |-> FloatOfInt(v.i)]
          [] OTHER -> [ok |-> FALSE, val |-> FloatOfInt(0)]

\* the less function handed to sort.Slice
sortLess(gi, gj, sortBy, desc) ==
    LET iv == sortValue(gi, sortBy)
        jv == sortValue(gj, sortBy)
    IN  IF ~iv.ok \/ ~jv.ok THEN FALSE
        ELSE IF desc THEN FloatLess(jv.val, iv.val) ELSE FloatLess(iv.val, jv.val)

Orderings(S) == {p \in [1..Cardinality(S) -> S] : \A i, j \in DOMAIN p : i # j => p[i] # p[j]}

\* sortGroupResults: sort.Slice is not stable, so it may leave the groups in
\* any order in which no group is less than one placed before it
sortGroupResults(groupSet, sortBy, desc) ==
    {p \in Orderings(groupSet) :
        \A i, j \in DOMAIN p : i < j => ~sortLess(p[j], p[i], sortBy, desc)}

\* processGroups: Go ranges over the map in an unspecified order, so without
\* a sort every order of the groups is possible
processGroups(groups, opts) ==
    LET groupSet == {GroupResult(key, groups[key], opts) : key \in DOMAIN groups}
    IN  IF opts.SortBy # <<>> THEN sortGroupResults(groupSet, opts.SortBy, opts.SortDesc)
        ELSE Orderings(groupSet)

NoStats == [Count |-> 0, Sum |-> FloatOfInt(0), Average |-> FloatOfInt(0),
            Min |-> FloatOfInt(0), Max |-> FloatOfInt(0), Unique |-> 0, NullCount |-> 0]

RECURSIVE floatMin(_)
floatMin(vals) ==
    IF Len(vals) = 1 THEN vals[1]
    ELSE LET m == floatMin(Tail(vals)) IN IF FloatLess(m, vals[1]) THEN m ELSE vals[1]
RECURSIVE floatMax(_)
floatMax(vals) ==
    IF Len(vals) = 1 THEN vals[1]
    ELSE LET m == floatMax(Tail(vals)) IN IF FloatLess(vals[1], m) THEN m ELSE vals[1]
RECURSIVE floatSum(_)
floatSum(vals) == IF Len(vals) = 0 THEN FloatOfInt(0) ELSE FloatAdd(vals[1], floatSum(Tail(vals)))

calculateFieldStats(data, field) ==
    LET values == [i \in DOMAIN data |-> FieldOf(data[i], field)]
        nonNull == SelectSeq(values, LAMBDA v : v # <<>>)
        parsed == [i \in DOMAIN nonNull |-> ParseFloat(nonNull[i])]
        good == SelectSeq(parsed, LAMBDA q : ~q.err)
        numericValues == [i \in DOMAIN good |-> good[i].val]
        sum == floatSum(numericValues)
    IN  [Count |-> Len(data),
         Sum |-> IF Len(numericValues) > 0 THEN sum ELSE FloatOfInt(0),
         Average |-> IF Len(numericValues) > 0 THEN FloatDiv(sum, Len(numericValues))
                     ELSE FloatOfInt(0),
         Min |-> IF Len(numericValues) > 0 THEN floatMin(numericValues) ELSE FloatOfInt(0),
         Max |-> IF Len(numericValues) > 0 THEN floatMax(numericValues) ELSE FloatOfInt(0),
         Unique |-> Cardinality(Range(nonNull)),
         NullCount |-> Len(values) - Len(nonNull)]

\* the FieldStats map of the summary: each rule stored under its field, in order
RECURSIVE summaryStats(_, _)
summaryStats(data, ruleList) ==
    IF Len(ruleList) = 0 THEN EmptyMap
    ELSE LET rule == ruleList[Len(ruleList)]
         IN  MapPut(summaryStats(data, SubSeq(ruleList, 1, Len(ruleList) - 1)), rule.Field,
                    IF rule.Operation = Count THEN [NoStats EXCEPT !.Count = Len(data)]
                    ELSE calculateFieldStats(data, rule.Field))

processOverallAggregation(data, opts) ==
    [TotalRecords |-> Len(data), FieldStats |-> summaryStats(data, opts.Rules)]

\* aggregateData: the possible AggregateResult values.  Summary is a pointer:
\* it stays nil in grouped mode.
aggregateData(data, opts) ==
    IF Len(opts.GroupBy) > 0
    THEN {[TotalRows |-> Len(data), Groups |-> g, hasSummary |-> FALSE,
           Summary |-> [TotalRecords |-> 0, FieldStats |-> EmptyMap]] :
            g \in processGroups(groupData(data, opts.GroupBy), opts)}
    ELSE {[TotalRows |-> Len(data), Groups |-> <<>>, hasSummary |-> TRUE,
           Summary |-> processOverallAggregation(data, opts)]}

\* entries written into a row, in order: later ones replace earlier ones
RECURSIVE putAll(_, _)
putAll(row, entries) ==
    IF Len(entries) = 0 THEN row
    ELSE putAll(MapPut(row, entries[1][1], entries[1][2]), Tail(entries))
\* the entries of a map in some order (the keys are distinct, any order does)
RECURSIVE entriesOf(_)
entriesOf(m) ==
    IF DOMAIN m = {} THEN <<>>
    ELSE LET k == CHOOSE x \in DOMAIN m : TRUE
         IN  <<<<k, m[k]>>>> \o entriesOf([x \in DOMAIN m \ {k} |-> m[x]])

groupRow(group) ==
    LET fixed == << <<<<"g","r","o","u","p","_","k","e","y">>, group.GroupKey>>,
                    <<Count, Itoa(group.Count)>> >>
        vals == entriesOf(group.GroupValues)
        aggs == entriesOf([a \in DOMAIN group.Aggregates |-> Sprintv(group.Aggregates[a])])
    IN  putAll(EmptyMap, fixed \o vals \o aggs)

statsEntries(field, stats) ==
    <<<<field \o <<"_">> \o Count, Itoa(stats.Count)>>>>
    \o (IF ~FloatEq(stats.Sum, FloatOfInt(0))
        THEN << <<field \o <<"_">> \o Sum, FormatFixed2(stats.Sum)>>,
                <<field \o <<"_">> \o Average, FormatFixed2(stats.Average)>>,
                <<field \o <<"_">> \o Min, FormatFixed2(stats.Min)>>,
                <<field \o <<"_">> \o Max, FormatFixed2(stats.Max)>> >>
        ELSE <<>>)
    \o (IF stats.Unique # 0
        THEN <<<<field \o <<"_","u","n","i","q","u","e">>, Itoa(stats.Unique)>>>>
        ELSE <<>>)

RECURSIVE summaryEntries(_)
summaryEntries(fieldStats) ==
    IF DOMAIN fieldStats = {} THEN <<>>
    ELSE LET f == CHOOSE x \in DOMAIN fieldStats : TRUE
         IN  statsEntries(f, fieldStats[f])
             \o summaryEntries([x \in DOMAIN fieldStats \ {f} |-> fieldStats[x]])

summaryRow(summary) ==
    putAll(EmptyMap,
           <<<<<<"t","o","t","a","l","_","r","e","c","o","r","d","s">>,
               Itoa(summary.TotalRecords)>>>>
           \o summaryEntries(summary.FieldStats))

\* convertResultToDataRows: with no group it reads result.Summary, which is
\* nil in grouped mode: a nil pointer dereference
convertResultToDataRows(result) ==
    IF Len(result.Groups) > 0
    THEN [panic |-> FALSE, rows |-> [i \in DOMAIN result.Groups |-> groupRow(result.Groups[i])]]
    ELSE IF ~result.hasSummary THEN [panic |-> TRUE, rows |-> <<>>]
    ELSE IF result.Summary.TotalRecords > 0
    THEN [panic |-> FALSE, rows |-> <<summaryRow(result.Summary)>>]
    ELSE [panic |-> FALSE, rows |-> <<>>]

NoResult == [TotalRows |-> 0, Groups |-> <<>>, hasSummary |-> FALSE,
             Summary |-> [TotalRecords |-> 0, FieldStats |-> EmptyMap]]

\* AggregateService.ProcessData: the possible outcomes.  result is the
\* AggregateResult computed (and written when an output file is named).
Aggregate_ProcessData(input, options, fsys) ==
    LET opts == parseAggregateOptions(options)
        reads == Len(input) = 0 /\ opts.InputFile # <<>>
        rd == ReadCSV(fsys, opts.InputFile)
        readIO == IF reads THEN <<ReadEvent(opts.InputFile)>> ELSE <<>>
    IN  IF reads /\ rd.err # NoError
        THEN {[data |-> <<>>, err |-> Wrap("failed to read input file", rd.err), io |-> readIO,
               panic |-> FALSE, result |-> NoResult]}
        ELSE {LET writes == opts.OutputFile # <<>>
                  wr == WriteJSON(fsys, opts.OutputFile, result)
                  allIO == readIO \o (IF writes THEN <<WriteEvent(opts.OutputFile, result)>>
                                      ELSE <<>>)
                  conv == convertResultToDataRows(result)
              IN  IF writes /\ wr # NoError
                  THEN [data |-> <<>>, err |-> Wrap("failed to write aggregated data", wr),
                        io |-> allIO, panic |-> FALSE, result |-> result]
                  ELSE [data |-> conv.rows, err |-> NoError, io |-> allIO,
                        panic |-> conv.panic, result |-> result] :
                 result \in aggregateData(IF reads THEN rd.data ELSE input, opts)}

\* ------------------------------------------------------------------ aggregate in memory
\* rows that share a city, a missing and an empty name, a value that is no
\* number, and values that hold the separator of the group key
AggregateRowPool ==
    { (city :> <<"P">>) @@ (name :> <<"a","|","b">>) @@ (age :> <<"3","0">>),
      (city :> <<"P","|","a">>) @@ (name :> <<"b">>) @@ (age :> <<"1","8">>),
      (city :> <<"P">>) @@ (age :> <<"x">>),
      (city :> <<"P">>) @@ (name :> <<>>) @@ (age :> <<"6">>) }

AggregateRulePool ==
    { AggregateRule(age, Count, <<>>),
      AggregateRule(age, Sum, <<>>),
      AggregateRule(age, Average, <<"a","v","g">>),
      AggregateRule(name, Min, <<>>),
      AggregateRule(age, Max, <<>>),
      AggregateRule(name, Distinct, <<>>),
      AggregateRule(age, <<"m","e","d","i","a","n">>, <<>>) }

GroupByPool == {<<>>, <<city>>, <<city, name>>}

AggregateRuleMaps(ruleList) ==
    [t |-> "[]interface{}",
     elems |-> [k \in DOMAIN ruleList |->
                  [t |-> "map[string]interface{}",
                   m |-> [field |-> StrV(ruleList[k].Field),
                          operation |-> StrV(ruleList[k].Operation),
                          alias |-> StrV(ruleList[k].Alias)]]]]
StringSlice(strs) == [t |-> "[]interface{}", elems |-> [k \in DOMAIN strs |-> StrV(strs[k])]]
AggregateOptions(inputFile, outputFile, ruleSlice, groupBySlice, sortBy, sortDesc) ==
    [input_file |-> StrV(inputFile), output_file |-> StrV(outputFile),
     rules |-> ruleSlice, group_by |-> groupBySlice,
     sort_by |-> StrV(sortBy), sort_desc |-> BoolV(sortDesc)]

AggregateNotRun == [data |-> <<>>, err |-> NoError, io |-> <<>>, panic |-> FALSE,
                    result |-> NoResult]

InitAggregate ==
    /\ rows \in SeqsUpTo(AggregateRowPool, MaxRows)
    /\ rules \in SeqsUpTo(AggregateRulePool, MaxRules)
    /\ \E groupBy \in GroupByPool :
       \E sortBy \in {<<>>} \cup (IF Len(rules) > 0 THEN {aliasOf(rules[1])} ELSE {}) :
       \E sortDesc \in (IF sortBy = <<>> THEN {FALSE} ELSE BOOLEAN) :
          opt = [engine |-> "aggregate", groupBy |-> groupBy,
                 sortBy |-> sortBy, sortDesc |-> sortDesc]
    /\ done = {}
    /\ out = [agg |-> AggregateNotRun]

\* aggregate(rows, rules, groupBy, sortBy, sortDesc)
Aggregate ==
    /\ "aggregate" \notin done
    /\ \E outcome \in Aggregate_ProcessData(rows,
                         AggregateOptions(<<>>, <<>>, AggregateRuleMaps(rules),
                                          StringSlice(opt.groupBy), opt.sortBy, opt.sortDesc),
                         NoFiles) :
          out' = [out EXCEPT !.agg = outcome]
    /\ done' = done \cup {"aggregate"}
    /\ UNCHANGED <<rows, rules, opt>>

NextAggregate == Aggregate
SpecAggregate == InitAggregate /\ [][NextAggregate]_vars

RECURSIVE SumOfCounts(_)
SumOfCounts(groups) ==
    IF Len(groups) = 0 THEN 0 ELSE groups[1].Count + SumOfCounts(Tail(groups))

\* C5: with a non-empty groupBy the counts of the groups sum to the number of
\* input rows, and every input row belongs to exactly one group: one group
\* carries the row's key, and its count is the number of rows with that key
AggregateCountInvariant ==
    ("aggregate" \in done /\ Len(opt.groupBy) > 0) =>
        LET groups == out.agg.result.Groups IN
        /\ SumOfCounts(groups) = Len(rows)
        /\ out.agg.result.TotalRows = Len(rows)
        /\ \A i \in DOMAIN rows :
              Cardinality({k \in DOMAIN groups :
                              groups[k].GroupKey = createGroupKey(rows[i], opt.groupBy)}) = 1
        /\ \A k \in DOMAIN groups :
              groups[k].Count =
                  Cardinality({i \in DOMAIN rows :
                                  createGroupKey(rows[i], opt.groupBy) = groups[k].GroupKey})
\* two groups, one of them with more than one row
AggregateCountInvariantWitness ==
    /\ "aggregate" \in done /\ Len(opt.groupBy) > 0
    /\ Len(out.agg.result.Groups) >= 2
    /\ \E k \in DOMAIN out.agg.result.Groups : out.agg.result.Groups[k].Count >= 2

\* an aggregation by groups that returned
Grouped == "aggregate" \in done /\ Len(opt.groupBy) > 0 /\ ~out.agg.panic
\* the values of the group-by fields of a row, a missing field told from an
\* empty value
GroupByValues(row) ==
    [k \in DOMAIN opt.groupBy |->
        IF Has(row, opt.groupBy[k]) THEN <<"value", row[opt.groupBy[k]]>> ELSE <<"missing">>]
RowsLike(i) == {j \in DOMAIN rows : GroupByValues(rows[j]) = GroupByValues(rows[i])}

\* C23: two rows with the same values in all group-by fields are in the
\* same group and two rows that differ in a group-by value (a value holding
\* the separator "|", a missing field against an empty value) are in
\* different groups: there is one group for each combination of values,
\* counting the rows that have it
GroupKeyUnambiguous ==
    Grouped =>
        /\ Len(out.agg.result.Groups) =
              Cardinality({GroupByValues(rows[i]) : i \in DOMAIN rows})
        /\ \A i \in DOMAIN rows :
              \E k \in DOMAIN out.agg.result.Groups :
                  /\ out.agg.result.Groups[k].GroupKey = createGroupKey(rows[i], opt.groupBy)
                  /\ out.agg.result.Groups[k].Count = Cardinality(RowsLike(i))

\* the rows of group k, in input order, and the values of a field in them
\* that parse as numbers
RowsOfGroup(k) ==
    SelectSeq(rows, LAMBDA r : createGroupKey(r, opt.groupBy) = out.agg.result.Groups[k].GroupKey)
NumbersOf(groupRows, field) ==
    LET parsed == [i \in DOMAIN groupRows |-> ParseFloat(FieldOf(groupRows[i], field))]
        good == SelectSeq(parsed, LAMBDA q : ~q.err)
    IN  [i \in DOMAIN good |-> good[i].val]

\* C24: by groups, min and max of a group in which no value of the field of
\* the rule parses as a number are 0
MinMaxOfNoNumbers ==
    Grouped =>
        \A k \in DOMAIN out.agg.result.Groups : \A j \in DOMAIN rules :
            (rules[j].Operation \in {Min, Max}
               /\ NumbersOf(RowsOfGroup(k), rules[j].Field) = <<>>) =>
                out.agg.result.Groups[k].Aggregates[aliasOf(rules[j])] = FloatV(FloatOfInt(0))

\* the arithmetic mean of numbers, 0 when there is none
MeanOf(nums) == IF Len(nums) = 0 THEN FloatOfInt(0) ELSE FloatDiv(floatSum(nums), Len(nums))

\* C25: by groups, sum and average skip the values that are no numbers:
\* they are the sum and the arithmetic mean of the values of the field of
\* the rule that parse as numbers, so a row with another value changes neither
GroupSumAverageSkip ==
    Grouped =>
        \A k \in DOMAIN out.agg.result.Groups : \A j \in DOMAIN rules :
            /\ rules[j].Operation = Sum =>
                  out.agg.result.Groups[k].Aggregates[aliasOf(rules[j])]
                     = FloatV(floatSum(NumbersOf(RowsOfGroup(k), rules[j].Field)))
            /\ rules[j].Operation = Average =>
                  out.agg.result.Groups[k].Aggregates[aliasOf(rules[j])]
                     = FloatV(MeanOf(NumbersOf(RowsOfGroup(k), rules[j].Field)))

\* sortBy names the alias of a rule with one of the six operations
SortsByAggregate ==
    \E j \in DOMAIN rules :
        /\ aliasOf(rules[j]) = opt.sortBy
        /\ \A m \in DOMAIN rules : aliasOf(rules[m]) = opt.sortBy =>
              rules[m].Operation \in {Count, Sum, Average, Min, Max, Distinct}
\* the aggregate value of group k that sortBy names, as a number
SortNumber(k) ==
    LET v == out.agg.result.Groups[k].Aggregates[opt.sortBy]
    IN  IF v.t = "float64" THEN v.f ELSE FloatOfInt(v.i)

\* C26: when sortBy names the alias of a count, sum, average, min, max or
\* distinct rule the groups are returned in the order of that aggregate
\* value, non-decreasing, or non-increasing with sortDesc
GroupOrdering ==
    (Grouped /\ opt.sortBy # <<>> /\ SortsByAggregate) =>
        \A a, b \in DOMAIN out.agg.result.Groups :
            a < b => IF opt.sortDesc THEN ~FloatLess(SortNumber(a), SortNumber(b))
                     ELSE ~FloatLess(SortNumber(b), SortNumber(a))

GroupKeysOf(data) == {createGroupKey(data[i], opt.groupBy) : i \in DOMAIN data}
\* row carries the group key, the count, the group-by values and one field
\* per rule alias of some group of the input
IsGroupRow(row) ==
    \E i \in DOMAIN rows :
        /\ Has(row, <<"g","r","o","u","p","_","k","e","y">>)
        /\ row[<<"g","r","o","u","p","_","k","e","y">>] = createGroupKey(rows[i], opt.groupBy)
        /\ Has(row, Count)
        /\ row[Count] = Itoa(Cardinality({j \in DOMAIN rows :
                 createGroupKey(rows[j], opt.groupBy) = createGroupKey(rows[i], opt.groupBy)}))
        /\ \A k \in DOMAIN opt.groupBy : Has(row, opt.groupBy[k])
        /\ \A j \in DOMAIN rules : Has(row, aliasOf(rules[j]))

\* C27: the aggregate operation returns one row per distinct group key in
\* grouped mode, each with group_key, count, the group-by values and a field
\* per alias, and one row in summary mode, for every input, the empty one too
FlattenedRows ==
    "aggregate" \in done =>
        /\ ~out.agg.panic
        /\ Len(opt.groupBy) > 0 =>
              /\ Len(out.agg.data) = Cardinality(GroupKeysOf(rows))
              /\ GroupKeysOf(rows) =
                   {out.agg.data[k][<<"g","r","o","u","p","_","k","e","y">>] :
                      k \in {x \in DOMAIN out.agg.data : IsGroupRow(out.agg.data[x])}}
              /\ \A k \in DOMAIN out.agg.data : IsGroupRow(out.agg.data[k])
        /\ Len(opt.groupBy) = 0 => Len(out.agg.data) = 1

\* ------------------------------------------------------------------ ValidateService
ValidationRule(field, type, constraints, message) ==
    [Field |-> field, Type |-> type, Constraints |-> constraints, Message |-> message]
\* the constraints of a range rule: a map[string]interface{} with min and max
RangeV(lo, hi) == [t |-> "map[string]interface{}", m |-> [min |-> lo, max |-> hi]]

Required == <<"r","e","q","u","i","r","e","d">>
Email == <<"e","m","a","i","l">>
Numeric == <<"n","u","m","e","r","i","c">>
Regex == <<"r","e","g","e","x">>
MinLength == <<"m","i","n","_","l","e","n","g","t","h">>
MaxLength == <<"m","a","x","_","l","e","n","g","t","h">>
RangeType == <<"r","a","n","g","e">>

\* int(f): conversion of a float64 to int truncates toward zero
Trunc(f) == IF f.n >= 0 THEN f.n \div f.d ELSE -((-f.n) \div f.d)

IsLetter(c) == IsIn(c, UpperLetters) \/ IsIn(c, LowerLetters)
\* validateEmail: ^[a-zA-Z0-9._%+-]+@[a-zA-Z0-9.-]+\.[a-zA-Z]{2,}$
validateEmail(email) ==
    \E i, j \in DOMAIN email :
        /\ i < j /\ email[i] = "@" /\ email[j] = "."
        /\ i > 1
        /\ \A k \in 1..(i - 1) :
              IsLetter(email[k]) \/ IsIn(email[k], Digits) \/ email[k] \in {".", "_", "%", "+", "-"}
        /\ j > i + 1
        /\ \A k \in (i + 1)..(j - 1) :
              IsLetter(email[k]) \/ IsIn(email[k], Digits) \/ email[k] \in {".", "-"}
        /\ Len(email) >= j + 2
        /\ \A k \in (j + 1)..Len(email) : IsLetter(email[k])

validateNumeric(value) == ~ParseFloat(value).err

validateRegex(value, pattern) ==
    IF RegexpCompileError(pattern) THEN FALSE ELSE RegexpMatchString(pattern, value)

ValidationError(rowNumber, fieldName, fieldValue, ruleType, message, severity, rowData) ==
    [RowNumber |-> rowNumber, FieldName |-> fieldName, FieldValue |-> fieldValue,
     RuleType |-> ruleType, Message |-> message, Severity |-> severity, RowData |-> rowData]

\* slip: a missing field is reported as a warning
missingField_Warning(row, rule, rowNumber) ==
    ValidationError(rowNumber, rule.Field, <<>>, rule.Type,
                    <<"Field '%s' is missing", rule.Field>>, "warning", row)
\* the entry validateField returns when the row lacks the field
\* slip: the entry of a missing field takes the severity of the rule type
missingField_ByType(row, rule, rowNumber) ==
    ValidationError(rowNumber, rule.Field, <<>>, rule.Type,
                    <<"Field '%s' is missing", rule.Field>>,
                    IF rule.Type \in {Required, Email, Numeric, RangeType}
                    THEN "error" ELSE "warning",
                    row)
missingField(row, rule, rowNumber) ==
    ValidationError(rowNumber, rule.Field, <<>>, rule.Type,
                    <<"Field '%s' is missing", rule.Field>>, "error", row)

\* the range case once min and max are given: num is the value parsed
checkRange(num, mIn, mAx) ==
    IF num.err
    THEN [unknown |-> FALSE, isValid |-> FALSE,
          message |-> <<"Value must be numeric for range validation">>]
    ELSE [unknown |-> FALSE,
          isValid |-> ~FloatLess(num.val, mIn) /\ ~FloatLess(mAx, num.val),
          message |-> <<"Value must be between %.2f and %.2f",
                        FormatFixed2(mIn), FormatFixed2(mAx)>>]
\* the switch of validateField: isValid and the default message.  unknown
\* marks the default branch, which returns a warning at once.
checkField(fieldValue, rule) ==
    LET c == rule.Constraints IN
    CASE rule.Type = Required ->
            [unknown |-> FALSE, isValid |-> fieldValue # <<>>, message |-> <<"Field is required">>]
      [] rule.Type = Email ->
            [unknown |-> FALSE, isValid |-> validateEmail(fieldValue),
             message |-> <<"Invalid email format">>]
      [] rule.Type = Numeric ->
            [unknown |-> FALSE, isValid |-> validateNumeric(fieldValue),
             message |-> <<"Value must be numeric">>]
      [] rule.Type = Regex ->
            IF c.t = "string"
            THEN [unknown |-> FALSE, isValid |-> validateRegex(fieldValue, c.s),
                  message |-> <<"Value does not match pattern: ", c.s>>]
            ELSE [unknown |-> FALSE, isValid |-> FALSE, message |-> <<"Regex pattern not specified">>]
      [] rule.Type = MinLength ->
            IF c.t = "float64"
            THEN [unknown |-> FALSE, isValid |-> Len(fieldValue) >= Trunc(c.f),
                  message |-> <<"Value must be at least %d characters", Itoa(Trunc(c.f))>>]
            ELSE [unknown |-> FALSE, isValid |-> FALSE, message |-> <<"Min length not specified">>]
      [] rule.Type = MaxLength ->
            IF c.t = "float64"
            THEN [unknown |-> FALSE, isValid |-> Len(fieldValue) <= Trunc(c.f),
                  message |-> <<"Value must be at most %d characters", Itoa(Trunc(c.f))>>]
            ELSE [unknown |-> FALSE, isValid |-> FALSE, message |-> <<"Max length not specified">>]
      [] rule.Type = RangeType ->
            IF c.t # "map[string]interface{}"
            THEN [unknown |-> FALSE, isValid |-> FALSE,
                  message |-> <<"Range constraints not specified">>]
            ELSE IF c.m.min.t # "float64"
            THEN [unknown |-> FALSE, isValid |-> FALSE,
                  message |-> <<"Min value not specified for range">>]
            ELSE IF c.m.max.t # "float64"
            THEN [unknown |-> FALSE, isValid |-> FALSE,
                  message |-> <<"Max value not specified for range">>]
            ELSE checkRange(ParseFloat(fieldValue), c.m.min.f, c.m.max.f)
      [] OTHER ->
            [unknown |-> TRUE, isValid |-> FALSE,
             message |-> <<"Unknown validation rule type: ", rule.Type>>]

\* slip: every failing rule is reported with severity error
fieldEntry_AllErrors(row, rule, rowNumber, fieldValue, chk) ==
    IF chk.unknown
    THEN <<ValidationError(rowNumber, rule.Field, fieldValue, rule.Type,
                           chk.message, "warning", row)>>
    ELSE IF ~chk.isValid
    THEN <<ValidationError(rowNumber, rule.Field, fieldValue, rule.Type,
                           IF rule.Message # <<>> THEN rule.Message ELSE chk.message,
                           "error", row)>>
    ELSE <<>>
\* what validateField returns after the switch chk, none or one entry
fieldEntry(row, rule, rowNumber, fieldValue, chk) ==
    IF chk.unknown
    THEN <<ValidationError(rowNumber, rule.Field, fieldValue, rule.Type,
                           chk.message, "warning", row)>>
    ELSE IF ~chk.isValid
    THEN <<ValidationError(rowNumber, rule.Field, fieldValue, rule.Type,
                           IF rule.Message # <<>> THEN rule.Message ELSE chk.message,
                           IF rule.Type \in {Regex, MinLength, MaxLength}
                           THEN "warning" ELSE "error",
                           row)>>
    ELSE <<>>
\* validateField: the entries it returns for one row and one rule, none or one
validateField(row, rule, rowNumber) ==
    IF ~Has(row, rule.Field) THEN <<missingField(row, rule, rowNumber)>>
    ELSE fieldEntry(row, rule, rowNumber, row[rule.Field], checkField(row[rule.Field], rule))

\* an entry goes to the errors when its severity is "error", else to the warnings
splitEntries(found, rest) ==
    [errors |-> SelectSeq(found, LAMBDA e : e.Severity = "error") \o rest.errors,
     warnings |-> SelectSeq(found, LAMBDA e : e.Severity # "error") \o rest.warnings]
\* validateRow: the errors and the warnings of one row, in rule order
RECURSIVE validateRow(_, _, _)
validateRow(row, ruleList, rowNumber) ==
    IF Len(ruleList) = 0 THEN [errors |-> <<>>, warnings |-> <<>>]
    ELSE splitEntries(validateField(row, Head(ruleList), rowNumber),
                      validateRow(row, Tail(ruleList), rowNumber))

\* the score is kept within [0, 100]
clampScore(score) ==
    IF FloatLess(score, FloatOfInt(0)) THEN FloatOfInt(0)
    ELSE IF FloatLess(FloatOfInt(100), score) THEN FloatOfInt(100)
    ELSE score
\* slip: the warnings take nothing off the score
calculateQualityScore_NoPenalty(result) ==
    IF result.TotalRows = 0 THEN FloatOfInt(0)
    ELSE clampScore(Float(100 * result.ValidRows, result.TotalRows))
\* slip: the score is returned without the clamp to [0, 100]
calculateQualityScore_NoClamp(result) ==
    IF result.TotalRows = 0 THEN FloatOfInt(0)
    ELSE Float(100 * result.ValidRows - 5 * Len(result.Warnings), result.TotalRows)
\* calculateQualityScore: ValidRows / TotalRows * 100 less Warnings / TotalRows * 5
calculateQualityScore(result) ==
    IF result.TotalRows = 0 THEN FloatOfInt(0)
    ELSE clampScore(Float(100 * result.ValidRows - 5 * Len(result.Warnings), result.TotalRows))

\* FieldStats[field]++ for every field of the row
countFields(stats, row) ==
    [f \in DOMAIN stats \cup DOMAIN row |->
        (IF f \in DOMAIN stats THEN stats[f] ELSE 0) + (IF f \in DOMAIN row THEN 1 ELSE 0)]

\* slip: a row with a warning is counted as invalid too
addRow_WarningsInvalidate(acc, row, r) ==
    IF Len(r.errors) + Len(r.warnings) > 0
    THEN [result |-> [acc.result EXCEPT !.Errors = @ \o r.errors,
                                        !.InvalidRows = @ + 1,
                                        !.Warnings = @ \o r.warnings,
                                        !.FieldStats = countFields(@, row)],
          validData |-> acc.validData,
          invalidData |-> Append(acc.invalidData, row)]
    ELSE [result |-> [acc.result EXCEPT !.ValidRows = @ + 1,
                                        !.FieldStats = countFields(@, row)],
          validData |-> Append(acc.validData, row),
          invalidData |-> acc.invalidData]
\* one pass of the loop of validateData: the row is counted as invalid when
\* it has errors, else as valid; r is what validateRow found
addRow(acc, row, r) ==
    IF Len(r.errors) > 0
    THEN [result |-> [acc.result EXCEPT !.Errors = @ \o r.errors,
                                        !.InvalidRows = @ + 1,
                                        !.Warnings = @ \o r.warnings,
                                        !.FieldStats = countFields(@, row)],
          validData |-> acc.validData,
          invalidData |-> Append(acc.invalidData, row)]
    ELSE [result |-> [acc.result EXCEPT !.ValidRows = @ + 1,
                                        !.Warnings = @ \o r.warnings,
                                        !.FieldStats = countFields(@, row)],
          validData |-> Append(acc.validData, row),
          invalidData |-> acc.invalidData]
\* the loop of validateData from row i on; acc holds the result so far.
\* With fail_fast the loop ends after the first row that has errors.
RECURSIVE validateLoop(_, _, _, _)
loopStep(data, opts, i, acc, r) ==
    IF opts.FailFast /\ Len(r.errors) > 0 THEN addRow(acc, data[i], r)
    ELSE validateLoop(data, opts, i + 1, addRow(acc, data[i], r))
validateLoop(data, opts, i, acc) ==
    IF i > Len(data) THEN acc
    ELSE loopStep(data, opts, i, acc, validateRow(data[i], opts.Rules, i))

withScore(end) == [end EXCEPT !.result.QualityScore = calculateQualityScore(end.result)]
validateData(data, opts) ==
    withScore(validateLoop(data, opts, 1,
                 [result |-> [ValidRows |-> 0, InvalidRows |-> 0, TotalRows |-> Len(data),
                              Errors |-> <<>>, Warnings |-> <<>>, FieldStats |-> EmptyMap,
                              QualityScore |-> FloatOfInt(0)],
                  validData |-> <<>>, invalidData |-> <<>>]))

RECURSIVE parseValidationRules(_)
parseValidationRules(elems) ==
    IF Len(elems) = 0 THEN <<>>
    ELSE (IF Head(elems).t = "map[string]interface{}"
          THEN <<ValidationRule(getString(Head(elems).m, "field"),
                                getString(Head(elems).m, "type"),
                                Head(elems).m.constraints,
                                getString(Head(elems).m, "message"))>>
          ELSE <<>>) \o parseValidationRules(Tail(elems))

parseValidateOptions(options) ==
    [InputFile |-> IF options.input_file.t = "string" THEN options.input_file.s ELSE <<>>,
     OutputFile |-> IF options.output_file.t = "string" THEN options.output_file.s ELSE <<>>,
     FailFast |-> IF options.fail_fast.t = "bool" THEN options.fail_fast.b ELSE FALSE,
     ExportValid |-> IF options.export_valid.t = "bool" THEN options.export_valid.b ELSE FALSE,
     ExportInvalid |-> IF options.export_invalid.t = "bool" THEN options.export_invalid.b
                       ELSE FALSE,
     Rules |-> IF options.rules.t = "[]interface{}" THEN parseValidationRules(options.rules.elems)
               ELSE <<>>]

\* strings.TrimSuffix
TrimSuffix(s, suffix) ==
    IF HasSuffix(s, suffix) THEN SubSeq(s, 1, Len(s) - Len(suffix)) ELSE s
dotJson == <<".","j","s","o","n">>

NoValidation == [ValidRows |-> 0, InvalidRows |-> 0, TotalRows |-> 0, Errors |-> <<>>,
                 Warnings |-> <<>>, FieldStats |-> EmptyMap, QualityScore |-> FloatOfInt(0)]

\* the exports of the valid and the invalid rows, asked for when the rows
\* are not empty; a failed export is logged only
exportIO(opts, v) ==
    (IF opts.ExportValid /\ Len(v.validData) > 0
     THEN <<WriteEvent(TrimSuffix(opts.OutputFile, dotJson)
                         \o <<"_","v","a","l","i","d">> \o dotJson, v.validData)>>
     ELSE <<>>)
    \o (IF opts.ExportInvalid /\ Len(v.invalidData) > 0
        THEN <<WriteEvent(TrimSuffix(opts.OutputFile, dotJson)
                            \o <<"_","i","n","v","a","l","i","d">> \o dotJson, v.invalidData)>>
        ELSE <<>>)
\* the write step of ProcessData and what it returns; v is what
\* validateData computed
validateWrite(opts, fsys, readIO, v) ==
    IF opts.OutputFile = <<>>
    THEN [data |-> v.validData, err |-> NoError, io |-> readIO \o exportIO(opts, v),
          result |-> v.result, invalidData |-> v.invalidData]
    ELSE IF WriteJSON(fsys, opts.OutputFile, v.result) # NoError
    THEN [data |-> <<>>,
          err |-> Wrap("failed to write validation results",
                       WriteJSON(fsys, opts.OutputFile, v.result)),
          io |-> Append(readIO, WriteEvent(opts.OutputFile, v.result)),
          result |-> v.result, invalidData |-> v.invalidData]
    ELSE [data |-> v.validData, err |-> NoError,
          io |-> Append(readIO, WriteEvent(opts.OutputFile, v.result)) \o exportIO(opts, v),
          result |-> v.result, invalidData |-> v.invalidData]
\* ProcessData after the read step rd
validateRead(opts, fsys, rd) ==
    IF rd.err # NoError
    THEN [data |-> <<>>, err |-> Wrap("failed to read input file", rd.err), io |-> rd.io,
          result |-> NoValidation, invalidData |-> <<>>]
    ELSE validateWrite(opts, fsys, rd.io, validateData(rd.data, opts))
validateWithOptions(input, opts, fsys) ==
    validateRead(opts, fsys, readInput(input, opts.InputFile, fsys))
\* ValidateService.ProcessData: returns the valid rows; result is the
\* ValidationResult it computed (and wrote when an output file is named)
Validate_ProcessData(input, options, fsys) ==
    validateWithOptions(input, parseValidateOptions(options), fsys)

\* ------------------------------------------------------------------ validate in memory
email == <<"e","m","a","i","l">>

\* a good row, a row without email, an empty email, a malformed one
ValidateRowPool ==
    { (email :> <<"a","@","b",".","i","o">>) @@ (age :> <<"3","0">>),
      (age :> <<"x">>),
      (email :> <<>>) @@ (age :> <<"2","0","0">>),
      (email :> <<"a","b">>) @@ (age :> <<"5">>) }

ValidateRulePool ==
    { ValidationRule(email, Required, NilV, <<>>),
      ValidationRule(email, Email, NilV, <<"b","a","d">>),
      ValidationRule(age, Numeric, NilV, <<>>),
      ValidationRule(email, Regex, StrV(<<"^","a">>), <<>>),
      ValidationRule(email, Regex, StrV(<<"(">>), <<>>),
      ValidationRule(email, MinLength, FloatV(FloatOfInt(3)), <<"s","h","o","r","t">>),
      ValidationRule(email, MaxLength, FloatV(FloatOfInt(3)), <<>>),
      ValidationRule(age, RangeType, RangeV(FloatV(FloatOfInt(0)), FloatV(FloatOfInt(120))), <<>>),
      ValidationRule(email, <<"c","u","s","t","o","m">>, NilV, <<>>),
      ValidationRule(age, MinLength, NilV, <<>>) }

ValidationRuleMaps(ruleList) ==
    [t |-> "[]interface{}",
     elems |-> [k \in DOMAIN ruleList |->
                  [t |-> "map[string]interface{}",
                   m |-> [field |-> StrV(ruleList[k].Field),
                          type |-> StrV(ruleList[k].Type),
                          constraints |-> ruleList[k].Constraints,
                          message |-> StrV(ruleList[k].Message)]]]]
ValidateOptions(inputFile, outputFile, ruleSlice, failFast, exportValid, exportInvalid) ==
    [input_file |-> StrV(inputFile), output_file |-> StrV(outputFile), rules |-> ruleSlice,
     fail_fast |-> failFast, export_valid |-> exportValid, export_invalid |-> exportInvalid]

ValidateNotRun == [data |-> <<>>, err |-> NoError, io |-> <<>>, result |-> NoValidation,
                   invalidData |-> <<>>]

InitValidate ==
    /\ rows \in SeqsUpTo(ValidateRowPool, MaxRows)
    /\ rules \in SeqsUpTo(ValidateRulePool, MaxRules)
    /\ \E failFast \in BOOLEAN : opt = [engine |-> "validate", failFast |-> failFast]
    /\ done = {}
    /\ out = [val |-> ValidateNotRun]

\* validate(rows, rules, failFast); leaving "fail_fast" out is failFast=false
Validate ==
    /\ "validate" \notin done
    /\ \E ff \in {BoolV(opt.failFast)} \cup (IF opt.failFast THEN {} ELSE {NilV}) :
          out' = [out EXCEPT !.val =
                    Validate_ProcessData(rows,
                        ValidateOptions(<<>>, <<>>, ValidationRuleMaps(rules), ff, NilV, NilV),
                        NoFiles)]
    /\ done' = done \cup {"validate"}
    /\ UNCHANGED <<rows, rules, opt>>

NextValidate == Validate
SpecValidate == InitValidate /\ [][NextValidate]_vars

\* C6: the quality score lies in [0, 100], for the empty row set too and
\* with either failFast setting
QualityScoreBounds ==
    "validate" \in done =>
        LET score == out.val.result.QualityScore IN
        /\ score.d > 0
        /\ 0 <= score.n
        /\ score.n <= 100 * score.d
\* no row is valid and there are warnings: the formula alone is below 0
QualityScoreBoundsWitness ==
    /\ "validate" \in done
    /\ Len(rows) > 0
    /\ out.val.result.ValidRows = 0
    /\ Len(out.val.result.Warnings) > 0
    /\ out.val.result.QualityScore = FloatOfInt(0)

\* the rows the loop of validateData reached (all of them without failFast)
Validated(i) ==
    i <= out.val.result.ValidRows + out.val.result.InvalidRows
EntriesFor(entries, i, rule) ==
    {k \in DOMAIN entries :
        /\ entries[k].RowNumber = i
        /\ entries[k].FieldName = rule.Field
        /\ entries[k].RuleType = rule.Type}

\* C7: a validated row that lacks the field of a `required` rule gets exactly
\* one error for that field from each such rule, no warning, and is invalid
RequiredFieldMissing ==
    "validate" \in done =>
        \A i \in DOMAIN rows : \A j \in DOMAIN rules :
            (Validated(i) /\ rules[j].Type = Required /\ ~Has(rows[i], rules[j].Field)) =>
                /\ Cardinality(EntriesFor(out.val.result.Errors, i, rules[j]))
                      = Cardinality({k \in DOMAIN rules :
                                        /\ rules[k].Field = rules[j].Field
                                        /\ rules[k].Type = Required})
                /\ \A k \in EntriesFor(out.val.result.Errors, i, rules[j]) :
                      out.val.result.Errors[k].Severity = "error"
                /\ EntriesFor(out.val.result.Warnings, i, rules[j]) = {}
                /\ rows[i] \in Range(out.val.invalidData)
                /\ rows[i] \notin Range(out.val.data)
                /\ out.val.result.InvalidRows >= 1
\* the scenario of the specification: two rows, one without email, one
\* `required` rule: one error, one invalid row, a score of 50
RequiredFieldMissingWitness ==
    /\ "validate" \in done
    /\ Len(rows) = 2 /\ Has(rows[1], email) /\ ~Has(rows[2], email)
    /\ rules = <<ValidationRule(email, Required, NilV, <<>>)>>
    /\ Len(out.val.result.Errors) = 1
    /\ out.val.result.Errors[1].RowNumber = 2
    /\ out.val.result.InvalidRows = 1 /\ out.val.result.ValidRows = 1
    /\ out.val.result.QualityScore = FloatOfInt(50)

\* the rules with the field and the type of rule j
SameFieldAndType(j) ==
    {k \in DOMAIN rules : rules[k].Field = rules[j].Field /\ rules[k].Type = rules[j].Type}

\* C13: a validated row that lacks the field of a rule gets an entry of
\* severity error from that rule, whatever the type of the rule (regex,
\* min_length, max_length and unknown types included), and no warning
MissingFieldIsError ==
    "validate" \in done =>
        \A i \in DOMAIN rows : \A j \in DOMAIN rules :
            (Validated(i) /\ ~Has(rows[i], rules[j].Field)) =>
                /\ Cardinality(EntriesFor(out.val.result.Errors, i, rules[j]))
                      = Cardinality(SameFieldAndType(j))
                /\ \A k \in EntriesFor(out.val.result.Errors, i, rules[j]) :
                      /\ out.val.result.Errors[k].Severity = "error"
                      /\ out.val.result.Errors[k].FieldValue = <<>>
                /\ EntriesFor(out.val.result.Warnings, i, rules[j]) = {}
                /\ rows[i] \in Range(out.val.invalidData)
\* a row without the field of a regex rule and of a rule of unknown type
MissingFieldIsErrorWitness ==
    /\ "validate" \in done
    /\ Len(rules) = 2
    /\ rules[1].Type = Regex
    /\ rules[2].Type \notin {Required, Email, Numeric, Regex, MinLength, MaxLength, RangeType}
    /\ \E i \in DOMAIN rows :
          /\ Validated(i)
          /\ ~Has(rows[i], rules[1].Field) /\ ~Has(rows[i], rules[2].Field)
          /\ EntriesFor(out.val.result.Errors, i, rules[1]) # {}
          /\ EntriesFor(out.val.result.Errors, i, rules[2]) # {}
    /\ out.val.result.Warnings = <<>>

KnownTypes == {Required, Email, Numeric, Regex, MinLength, MaxLength, RangeType}
\* the value does not pass the rule; a constraint that is missing or of the
\* wrong type and a pattern that does not compile make the rule fail
Fails(value, rule) ==
    LET c == rule.Constraints IN
    CASE rule.Type = Required -> value = <<>>
      [] rule.Type = Email -> ~validateEmail(value)
      [] rule.Type = Numeric -> ParseFloat(value).err
      [] rule.Type = Regex ->
            \/ c.t # "string"
            \/ RegexpCompileError(c.s)
            \/ ~RegexpMatchString(c.s, value)
      [] rule.Type = MinLength -> c.t # "float64" \/ Len(value) < Trunc(c.f)
      [] rule.Type = MaxLength -> c.t # "float64" \/ Len(value) > Trunc(c.f)
      [] rule.Type = RangeType ->
            \/ c.t # "map[string]interface{}"
            \/ c.m.min.t # "float64" \/ c.m.max.t # "float64"
            \/ ParseFloat(value).err
            \/ LET x == ParseFloat(value).val IN
                  \/ x.n * c.m.min.f.d < c.m.min.f.n * x.d
                  \/ x.n * c.m.max.f.d > c.m.max.f.n * x.d
      [] OTHER -> TRUE
\* the rules with the field and the type of rule j that fail on row i
FailingLike(i, j) == {k \in SameFieldAndType(j) : Fails(rows[i][rules[j].Field], rules[k])}

\* C14: on a validated row that has the field, each failing rule gives one
\* entry and a passing rule none; the entry of a required, email, numeric
\* or range rule is an error, the entry of a regex, min_length or
\* max_length rule (a missing constraint and an invalid pattern included) a
\* warning, and a rule of any other type always gives a warning
SeverityByType ==
    "validate" \in done =>
        \A i \in DOMAIN rows : \A j \in DOMAIN rules :
            (Validated(i) /\ Has(rows[i], rules[j].Field)) =>
                LET errs == EntriesFor(out.val.result.Errors, i, rules[j])
                    warns == EntriesFor(out.val.result.Warnings, i, rules[j])
                IN  /\ \A k \in errs : out.val.result.Errors[k].Severity = "error"
                    /\ \A k \in warns : out.val.result.Warnings[k].Severity = "warning"
                    /\ IF rules[j].Type \in {Required, Email, Numeric, RangeType}
                       THEN /\ Cardinality(errs) = Cardinality(FailingLike(i, j))
                            /\ warns = {}
                       ELSE /\ Cardinality(warns) = Cardinality(FailingLike(i, j))
                            /\ errs = {}
                    /\ rules[j].Type \notin KnownTypes => warns # {}
\* a row that fails a range rule and a min_length rule without constraint:
\* one error and one warning; and a rule of unknown type next to a rule
\* with an invalid pattern: two warnings and a valid row
SeverityByTypeWitness ==
    /\ "validate" \in done /\ Len(rules) = 2 /\ Len(rows) >= 1
    /\ \/ /\ rules[1].Type = RangeType
          /\ rules[2].Type = MinLength /\ rules[2].Constraints = NilV
          /\ Has(rows[1], rules[1].Field) /\ Has(rows[1], rules[2].Field)
          /\ Cardinality(EntriesFor(out.val.result.Errors, 1, rules[1])) = 1
          /\ Cardinality(EntriesFor(out.val.result.Warnings, 1, rules[2])) = 1
       \/ /\ rules[1].Type \notin KnownTypes
          /\ rules[2].Type = Regex /\ RegexpCompileError(rules[2].Constraints.s)
          /\ Has(rows[1], rules[1].Field) /\ Has(rows[1], rules[2].Field)
          /\ Cardinality(EntriesFor(out.val.result.Warnings, 1, rules[1])) = 1
          /\ Cardinality(EntriesFor(out.val.result.Warnings, 1, rules[2])) = 1
          /\ rows[1] \in Range(out.val.data)

\* the entries of row i
OfRow(entries, i) == {k \in DOMAIN entries : entries[k].RowNumber = i}
\* the numbers of the rows checked, in order, and the rows picked by a test
Checked == [i \in 1..(out.val.result.ValidRows + out.val.result.InvalidRows) |-> i]
RowsWhere(Test(_)) ==
    LET picked == SelectSeq(Checked, Test) IN [k \in DOMAIN picked |-> rows[picked[k]]]
WithoutErrors(i) == OfRow(out.val.result.Errors, i) = {}
WithErrors(i) == OfRow(out.val.result.Errors, i) # {}

\* C15: the valid rows are the checked rows whose validation gave no error
\* (warnings do not count), the invalid rows the others, both in input
\* order and with no row in both; ValidRows and InvalidRows are their lengths
RowValidity ==
    "validate" \in done =>
        /\ out.val.data = RowsWhere(WithoutErrors)
        /\ out.val.invalidData = RowsWhere(WithErrors)
        /\ Range(out.val.data) \cap Range(out.val.invalidData) = {}
        /\ out.val.result.ValidRows = Len(out.val.data)
        /\ out.val.result.InvalidRows = Len(out.val.invalidData)
        /\ ~opt.failFast => Len(Checked) = Len(rows)
\* a valid row that has a warning between two invalid rows, all checked
RowValidityWitness ==
    /\ "validate" \in done /\ Len(rows) = 3 /\ Len(Checked) = 3
    /\ WithErrors(1) /\ WithoutErrors(2) /\ WithErrors(3)
    /\ OfRow(out.val.result.Warnings, 2) # {}
    /\ out.val.data = <<rows[2]>>
    /\ out.val.invalidData = <<rows[1], rows[3]>>
    /\ rows[1] # rows[3]

\* the rows that, validated alone, give an error: validation of a row
\* depends on the row and the rules only
GivesError(i) == validateRow(rows[i], rules, i).errors # <<>>
HasErrorRow == \E i \in DOMAIN rows : GivesError(i)
FirstErrorRow == CHOOSE i \in DOMAIN rows : GivesError(i) /\ \A k \in 1..(i - 1) : ~GivesError(k)

\* C16: with failFast, checking stops at the first row that gives an error:
\* the rows after it add no error and no warning and are in none of the
\* valid, invalid and total row counts
FailFastStops ==
    ("validate" \in done /\ opt.failFast /\ HasErrorRow) =>
        /\ \A i \in DOMAIN rows : i > FirstErrorRow =>
              /\ OfRow(out.val.result.Errors, i) = {}
              /\ OfRow(out.val.result.Warnings, i) = {}
        /\ out.val.result.ValidRows = FirstErrorRow - 1
        /\ out.val.result.InvalidRows = 1
        /\ out.val.result.TotalRows = FirstErrorRow

\* C17: for a row set that is not empty the quality score is
\* validRows / totalRows * 100 less totalWarnings / totalRows * 5, kept
\* within [0, 100]; one valid row of two and no warning give 50
QualityScoreFormula ==
    ("validate" \in done /\ Len(rows) > 0) =>
        LET res == out.val.result
            raw == 100 * res.ValidRows - 5 * Len(res.Warnings)
            score == res.QualityScore
        IN  /\ res.TotalRows = Len(rows)
            /\ score.d > 0
            /\ raw < 0 => score.n = 0
            /\ raw > 100 * res.TotalRows => score.n = 100 * score.d
            /\ (0 <= raw /\ raw <= 100 * res.TotalRows) =>
                  score.n * res.TotalRows = raw * score.d
            /\ (res.TotalRows = 2 /\ res.ValidRows = 1 /\ res.Warnings = <<>>) =>
                  score = FloatOfInt(50)
\* two valid rows of two with one warning: 100 less 2.5
QualityScoreFormulaWitness ==
    /\ "validate" \in done /\ Len(rows) = 2
    /\ out.val.result.ValidRows = 2
    /\ Len(out.val.result.Warnings) = 1
    /\ out.val.result.QualityScore = Float(195, 2)

\* the entry rule j gives for row i when its custom message is taken away
WithoutMessage(i, j) == validateField(rows[i], [rules[j] EXCEPT !.Message = <<>>], i)
\* entry e is what rule j says with its custom message: that message, and
\* the severity of the entry without it
SaysCustom(e, i, j) ==
    /\ e.Message = rules[j].Message
    /\ WithoutMessage(i, j) # <<>>
    /\ e.Severity = WithoutMessage(i, j)[1].Severity

\* C22: every failure reported for a rule that has a custom message carries
\* that message, with the severity it has without the message
CustomMessageOverrides ==
    "validate" \in done =>
        \A i \in DOMAIN rows : \A j \in DOMAIN rules :
            (Validated(i) /\ rules[j].Message # <<>>) =>
                /\ \A k \in EntriesFor(out.val.result.Errors, i, rules[j]) :
                      SaysCustom(out.val.result.Errors[k], i, j)
                /\ \A k \in EntriesFor(out.val.result.Warnings, i, rules[j]) :
                      SaysCustom(out.val.result.Warnings[k], i, j)

\* ------------------------------------------------------------------ TransformService
UpperCase == <<"u","p","p","e","r","_","c","a","s","e">>
LowerCase == <<"l","o","w","e","r","_","c","a","s","e">>
TitleCase == <<"t","i","t","l","e","_","c","a","s","e">>
Trim == <<"t","r","i","m">>
Replace == <<"r","e","p","l","a","c","e">>
Extract == <<"e","x","t","r","a","c","t">>
Split == <<"s","p","l","i","t">>
JoinOp == <<"j","o","i","n">>
Calculate == <<"c","a","l","c","u","l","a","t","e">>
Conditional == <<"c","o","n","d","i","t","i","o","n","a","l">>

\* the Parameters map of a rule; a key that is not set reads as nil
NoParams ==
    [old |-> NilV, new |-> NilV, pattern |-> NilV, group |-> NilV, separator |-> NilV,
     join_with |-> NilV, operation |-> NilV, operand |-> NilV, field |-> NilV,
     operator |-> NilV, value |-> NilV, true_result |-> NilV, false_result |-> NilV]
TransformRule(field, operation, parameters, targetField) ==
    [Field |-> field, Operation |-> operation, Parameters |-> parameters,
     TargetField |-> targetField]

\* strings.Title: the letter that starts a word is upper-cased; letters,
\* digits and "_" continue a word
IsSeparator(c) == ~(IsLetter(c) \/ IsIn(c, Digits) \/ c = "_")
Title(s) ==
    [i \in DOMAIN s |-> IF i = 1 \/ IsSeparator(s[i - 1]) THEN ToUpperChar(s[i]) ELSE s[i]]

IsSpace(c) == c \in {" ", "\t", "\n", "\r"}
RECURSIVE TrimLeft(_)
TrimLeft(s) == IF Len(s) > 0 /\ IsSpace(s[1]) THEN TrimLeft(Tail(s)) ELSE s
RECURSIVE TrimRight(_)
TrimRight(s) ==
    IF Len(s) > 0 /\ IsSpace(s[Len(s)]) THEN TrimRight(SubSeq(s, 1, Len(s) - 1)) ELSE s
\* strings.TrimSpace
TrimSpace(s) == TrimRight(TrimLeft(s))

\* strings.ReplaceAll: matches are taken left to right without overlap; an
\* empty old matches before every character and at the end
RECURSIVE ReplaceAll(_, _, _)
ReplaceAll(s, oldStr, newStr) ==
    IF oldStr = <<>>
    THEN (IF Len(s) = 0 THEN newStr ELSE newStr \o <<s[1]>> \o ReplaceAll(Tail(s), oldStr, newStr))
    ELSE IF Len(s) < Len(oldStr) THEN s
    ELSE IF HasPrefix(s, oldStr)
    THEN newStr \o ReplaceAll(SubSeq(s, Len(oldStr) + 1, Len(s)), oldStr, newStr)
    ELSE <<s[1]>> \o ReplaceAll(Tail(s), oldStr, newStr)

\* strings.Split: an empty separator splits after every character
RECURSIVE SplitAt(_, _, _)
SplitAt(s, sep, cur) ==
    IF Len(s) = 0 THEN <<cur>>
    ELSE IF HasPrefix(s, sep)
    THEN <<cur>> \o SplitAt(SubSeq(s, Len(sep) + 1, Len(s)), sep, <<>>)
    ELSE SplitAt(Tail(s), sep, Append(cur, s[1]))
SplitStr(s, sep) ==
    IF sep = <<>> THEN [i \in DOMAIN s |-> <<s[i]>>] ELSE SplitAt(s, sep, <<>>)

applyReplace(value, params) ==
    IF params.old.t # "string" THEN value
    ELSE ReplaceAll(value, params.old.s, IF params.new.t = "string" THEN params.new.s ELSE <<>>)

\* the end of applyExtract: matches[int(group)] panics when group is negative
extractGroup(value, group, matches) ==
    IF Len(matches) > group
    THEN (IF group < 0 THEN [panic |-> TRUE, s |-> <<>>]
          ELSE [panic |-> FALSE, s |-> matches[group + 1]])
    ELSE [panic |-> FALSE, s |-> value]
applyExtract(value, params) ==
    IF params.pattern.t # "string" THEN [panic |-> FALSE, s |-> value]
    ELSE IF RegexpCompileError(params.pattern.s) THEN [panic |-> FALSE, s |-> value]
    ELSE extractGroup(value,
                      IF params.group.t = "float64" THEN Trunc(params.group.f) ELSE 0,
                      FindStringSubmatch(params.pattern.s, value))

splitParts(value, joinWith, parts) ==
    IF joinWith # <<>> THEN Join(parts, joinWith)
    ELSE IF Len(parts) > 0 THEN parts[1]
    ELSE value
applySplit(value, params) ==
    splitParts(value,
               IF params.join_with.t = "string" THEN params.join_with.s ELSE <<>>,
               SplitStr(value, IF params.separator.t = "string" THEN params.separator.s
                               ELSE <<",">>))

joinParts(parts, separator) == Join([i \in DOMAIN parts |-> TrimSpace(parts[i])], separator)
applyJoin(value, params) ==
    joinParts(SplitStr(value, <<",">>),
              IF params.separator.t = "string" THEN params.separator.s ELSE <<",">>)

\* the switch of applyCalculate on a value that is a number
calculate(value, numValue, operation, operand) ==
    CASE operation = <<"a","d","d">> -> FormatFixed2(FloatAdd(numValue, operand))
      [] operation = <<"s","u","b","t","r","a","c","t">> ->
            FormatFixed2(FloatSub(numValue, operand))
      [] operation = <<"m","u","l","t","i","p","l","y">> ->
            FormatFixed2(FloatMul(numValue, operand))
      [] operation = <<"d","i","v","i","d","e">> ->
            IF operand.n # 0 THEN FormatFixed2(FloatQuo(numValue, operand)) ELSE <<"0">>
      [] OTHER -> value
calculateParsed(value, num, operation, operand) ==
    IF num.err THEN value ELSE calculate(value, num.val, operation, operand)
applyCalculate(value, params) ==
    IF params.operation.t # "string" THEN value
    ELSE IF params.operand.t # "float64" THEN value
    ELSE calculateParsed(value, ParseFloat(value), params.operation.s, params.operand.f)

\* the numeric conditions: both texts must be numbers
conditionOrder(num1, num2, greater) ==
    /\ ~num1.err /\ ~num2.err
    /\ IF greater THEN FloatLess(num2.val, num1.val) ELSE FloatLess(num1.val, num2.val)
\* the switch of applyConditional
conditionHolds(operator, fieldValue, value) ==
    CASE operator = <<"e","q","u","a","l","s">> -> fieldValue = value
      [] operator = <<"n","o","t","_","e","q","u","a","l","s">> -> fieldValue # value
      [] operator = <<"c","o","n","t","a","i","n","s">> -> Contains(fieldValue, value)
      [] operator \in {<<"g","r","e","a","t","e","r","_","t","h","a","n">>,
                       <<"l","e","s","s","_","t","h","a","n">>} ->
            conditionOrder(ParseFloat(fieldValue), ParseFloat(value),
                           operator = <<"g","r","e","a","t","e","r","_","t","h","a","n">>)
      [] OTHER -> FALSE
conditionResult(row, params, trueResult, falseResult) ==
    IF ~Has(row, params.field.s) THEN falseResult
    ELSE IF conditionHolds(params.operator.s, row[params.field.s], params.value.s)
    THEN trueResult
    ELSE falseResult
applyConditional(row, params) ==
    IF params.field.t # "string" \/ params.operator.t # "string" \/ params.value.t # "string"
    THEN <<>>
    ELSE conditionResult(row, params,
                         IF params.true_result.t = "string" THEN params.true_result.s
                         ELSE <<"t","r","u","e">>,
                         IF params.false_result.t = "string" THEN params.false_result.s
                         ELSE <<"f","a","l","s","e">>)

\* applyTransformRule: the text written for one rule, computed from the
\* original row; a missing source field gives ""
applyTransformRule(row, rule) ==
    IF ~Has(row, rule.Field) THEN [panic |-> FALSE, s |-> <<>>]
    ELSE LET fieldValue == row[rule.Field] IN
         CASE rule.Operation = UpperCase -> [panic |-> FALSE, s |-> ToUpper(fieldValue)]
           [] rule.Operation = LowerCase -> [panic |-> FALSE, s |-> ToLower(fieldValue)]
           [] rule.Operation = TitleCase -> [panic |-> FALSE, s |-> Title(ToLower(fieldValue))]
           [] rule.Operation = Trim -> [panic |-> FALSE, s |-> TrimSpace(fieldValue)]
           [] rule.Operation = Replace ->
                [panic |-> FALSE, s |-> applyReplace(fieldValue, rule.Parameters)]
           [] rule.Operation = Extract -> applyExtract(fieldValue, rule.Parameters)
           [] rule.Operation = Split ->
                [panic |-> FALSE, s |-> applySplit(fieldValue, rule.Parameters)]
           [] rule.Operation = JoinOp ->
                [panic |-> FALSE, s |-> applyJoin(fieldValue, rule.Parameters)]
           [] rule.Operation = Calculate ->
                [panic |-> FALSE, s |-> applyCalculate(fieldValue, rule.Parameters)]
           [] rule.Operation = Conditional ->
                [panic |-> FALSE, s |-> applyConditional(row, rule.Parameters)]
           [] OTHER -> [panic |-> FALSE, s |-> fieldValue]

targetOf(rule) == IF rule.TargetField = <<>> THEN rule.Field ELSE rule.TargetField

\* the text of a rule is stored under its target field, replacing what is there
storeResult(acc, target, res) ==
    [panic |-> acc.panic \/ res.panic, Fields |-> MapPut(acc.Fields, target, res.s)]
\* the row a chained rule would read: the fields as transformed so far
rowSoFar(row, acc) ==
    [f \in DOMAIN row \cup DOMAIN acc.Fields |->
        IF f \in DOMAIN acc.Fields THEN acc.Fields[f] ELSE row[f]]

\* slip: a rule reads the row as transformed so far, chaining the rules
RECURSIVE applyRules_Chained(_, _, _)
applyRules_Chained(row, ruleList, acc) ==
    IF Len(ruleList) = 0 THEN acc
    ELSE applyRules_Chained(row, Tail(ruleList),
             storeResult(acc, targetOf(Head(ruleList)),
                         applyTransformRule(rowSoFar(row, acc), Head(ruleList))))
\* slip: the loop ends after the first rule
applyRules_FirstOnly(row, ruleList, acc) ==
    IF Len(ruleList) = 0 THEN acc
    ELSE storeResult(acc, targetOf(Head(ruleList)), applyTransformRule(row, Head(ruleList)))
\* the rule loop of transformRow: every rule reads the original row
RECURSIVE applyRules(_, _, _)
applyRules(row, ruleList, acc) ==
    IF Len(ruleList) = 0 THEN acc
    ELSE applyRules(row, Tail(ruleList),
             storeResult(acc, targetOf(Head(ruleList)),
                         applyTransformRule(row, Head(ruleList))))

\* slip: the output row starts empty whatever keep_fields says
transformRow_StartsEmpty(row, opts) ==
    applyRules(row, opts.Rules, [panic |-> FALSE, Fields |-> EmptyMap])
\* transformRow: a new row, a copy of the original fields when keep_fields
\* is set, with the result of every rule stored in it
transformRow(row, opts) ==
    applyRules(row, opts.Rules,
               [panic |-> FALSE, Fields |-> IF opts.KeepFields THEN row ELSE EmptyMap])

collectRows(transformed) ==
    [panic |-> \E i \in DOMAIN transformed : transformed[i].panic,
     rows |-> [i \in DOMAIN transformed |-> transformed[i].Fields]]
transformData(data, opts) ==
    collectRows([i \in DOMAIN data |-> transformRow(data[i], opts)])

\* slip: a row is dropped only when all its values are empty
filterNullRows_AllEmpty(data) ==
    SelectSeq(data, LAMBDA row : \E f \in DOMAIN row : row[f] # <<>>)
\* filterNullRows: the rows that have no empty value, in order
filterNullRows(data) ==
    SelectSeq(data, LAMBDA row : ~\E f \in DOMAIN row : row[f] = <<>>)

RECURSIVE parseTransformRules(_)
parseTransformRules(elems) ==
    IF Len(elems) = 0 THEN <<>>
    ELSE (IF Head(elems).t = "map[string]interface{}"
          THEN <<TransformRule(getString(Head(elems).m, "field"),
                               getString(Head(elems).m, "operation"),
                               IF Head(elems).m.parameters.t = "map[string]interface{}"
                               THEN Head(elems).m.parameters.m ELSE NoParams,
                               getString(Head(elems).m, "target_field"))>>
          ELSE <<>>) \o parseTransformRules(Tail(elems))

parseTransformOptions(options) ==
    [InputFile |-> IF options.input_file.t = "string" THEN options.input_file.s ELSE <<>>,
     OutputFile |-> IF options.output_file.t = "string" THEN options.output_file.s ELSE <<>>,
     KeepFields |-> IF options.keep_fields.t = "bool" THEN options.keep_fields.b ELSE TRUE,
     DropNulls |-> IF options.drop_nulls.t = "bool" THEN options.drop_nulls.b ELSE FALSE,
     Rules |-> IF options.rules.t = "[]interface{}" THEN parseTransformRules(options.rules.elems)
               ELSE <<>>]

\* the write step of ProcessData and what it returns
transformWrite(opts, fsys, readIO, transformedData) ==
    IF opts.OutputFile = <<>>
    THEN [data |-> transformedData, err |-> NoError, io |-> readIO, panic |-> FALSE]
    ELSE IF WriteJSON(fsys, opts.OutputFile, transformedData) # NoError
    THEN [data |-> <<>>,
          err |-> Wrap("failed to write transformed data",
                       WriteJSON(fsys, opts.OutputFile, transformedData)),
          io |-> Append(readIO, WriteEvent(opts.OutputFile, transformedData)),
          panic |-> FALSE]
    ELSE [data |-> transformedData, err |-> NoError,
          io |-> Append(readIO, WriteEvent(opts.OutputFile, transformedData)),
          panic |-> FALSE]
\* a panic in a rule ends the call; else the rows with an empty value are
\* dropped when drop_nulls is set
transformDone(opts, fsys, readIO, t) ==
    IF t.panic THEN [data |-> <<>>, err |-> NoError, io |-> readIO, panic |-> TRUE]
    ELSE transformWrite(opts, fsys, readIO,
                        IF opts.DropNulls THEN filterNullRows(t.rows) ELSE t.rows)
\* ProcessData after the read step rd
transformRead(opts, fsys, rd) ==
    IF rd.err # NoError
    THEN [data |-> <<>>, err |-> Wrap("failed to read input file", rd.err), io |-> rd.io,
          panic |-> FALSE]
    ELSE transformDone(opts, fsys, rd.io, transformData(rd.data, opts))
transformWithOptions(input, opts, fsys) ==
    transformRead(opts, fsys, readInput(input, opts.InputFile, fsys))
\* TransformService.ProcessData
Transform_ProcessData(input, options, fsys) ==
    transformWithOptions(input, parseTransformOptions(options), fsys)

\* ------------------------------------------------------------------ transform in memory
\* mixed-case, lower-case and upper-case names, an empty and a missing age,
\* and a value that is a list
TransformRowPool ==
    { (name :> <<"A","l">>) @@ (age :> <<"3","0">>),
      (name :> <<"a","l">>) @@ (age :> <<>>),
      (name :> <<"A","L">>),
      (name :> <<" ","a",","," ","b"," ">>) @@ (age :> <<"1",".","5">>) }

TransformRulePool ==
    { TransformRule(name, UpperCase, NoParams, <<>>),
      TransformRule(name, LowerCase, NoParams, <<>>),
      TransformRule(name, TitleCase, NoParams, <<"t">>),
      TransformRule(name, Trim, NoParams, <<>>),
      TransformRule(name, Replace,
                    [NoParams EXCEPT !.old = StrV(<<"l">>), !.new = StrV(<<"L","L">>)], <<>>),
      TransformRule(name, Extract,
                    [NoParams EXCEPT !.pattern = StrV(<<"(","A",")","l">>),
                                     !.group = FloatV(FloatOfInt(1))], <<>>),
      TransformRule(name, Extract,
                    [NoParams EXCEPT !.pattern = StrV(<<"(","A",")","l">>),
                                     !.group = FloatV(FloatOfInt(-1))], <<"t">>),
      TransformRule(name, Split, [NoParams EXCEPT !.separator = StrV(<<",">>)], <<>>),
      TransformRule(name, JoinOp, [NoParams EXCEPT !.separator = StrV(<<"|">>)], <<>>),
      TransformRule(age, Calculate,
                    [NoParams EXCEPT !.operation = StrV(<<"a","d","d">>),
                                     !.operand = FloatV(Float(3, 2))], <<>>),
      TransformRule(name, Conditional,
                    [NoParams EXCEPT !.field = StrV(age),
                                     !.operator = StrV(<<"g","r","e","a","t","e","r","_","t","h","a","n">>),
                                     !.value = StrV(<<"1","8">>)], <<"t">>),
      TransformRule(age, Conditional,
                    [NoParams EXCEPT !.field = StrV(name),
                                     !.operator = StrV(<<"e","q","u","a","l","s">>),
                                     !.value = StrV(<<"A","L">>),
                                     !.true_result = StrV(<<"Y">>)], <<"t">>),
      TransformRule(age, <<"r","e","v","e","r","s","e">>, NoParams, <<"t">>) }

TransformRuleMaps(ruleList) ==
    [t |-> "[]interface{}",
     elems |-> [k \in DOMAIN ruleList |->
                  [t |-> "map[string]interface{}",
                   m |-> [field |-> StrV(ruleList[k].Field),
                          operation |-> StrV(ruleList[k].Operation),
                          target_field |-> StrV(ruleList[k].TargetField),
                          parameters |-> [t |-> "map[string]interface{}",
                                          m |-> ruleList[k].Parameters]]]]]
TransformOptions(inputFile, outputFile, ruleSlice, keepFields, dropNulls) ==
    [input_file |-> StrV(inputFile), output_file |-> StrV(outputFile), rules |-> ruleSlice,
     keep_fields |-> keepFields, drop_nulls |-> dropNulls]

TransformNotRun == [data |-> <<>>, err |-> NoError, io |-> <<>>, panic |-> FALSE]

\* the rules of a row act on that row alone: one row fewer than the other
\* engines shows every case
InitTransform ==
    /\ rows \in SeqsUpTo(TransformRowPool, MaxRows - 1)
    /\ rules \in SeqsUpTo(TransformRulePool, MaxRules)
    /\ \E keepFields \in BOOLEAN, dropNulls \in BOOLEAN :
          opt = [engine |-> "transform", keepFields |-> keepFields, dropNulls |-> dropNulls]
    /\ done = {}
    /\ out = [tr |-> TransformNotRun]

\* transform(rows, rules, keepFields, dropNulls); leaving a flag out gives
\* its default (keep_fields true, drop_nulls false)
Transform ==
    /\ "transform" \notin done
    /\ \E kf \in {BoolV(opt.keepFields)} \cup (IF opt.keepFields THEN {NilV} ELSE {}) :
       \E dn \in {BoolV(opt.dropNulls)} \cup (IF opt.dropNulls THEN {} ELSE {NilV}) :
          out' = [out EXCEPT !.tr =
                    Transform_ProcessData(rows,
                        TransformOptions(<<>>, <<>>, TransformRuleMaps(rules), kf, dn), NoFiles)]
    /\ done' = done \cup {"transform"}
    /\ UNCHANGED <<rows, rules, opt>>

NextTransform == Transform
SpecTransform == InitTransform /\ [][NextTransform]_vars

\* the rule list is upper_case then lower_case on one field, written in place
UpperThenLower ==
    /\ Len(rules) = 2
    /\ rules[1].Operation = UpperCase /\ rules[2].Operation = LowerCase
    /\ rules[1].Field = rules[2].Field
    /\ rules[1].TargetField = <<>> /\ rules[2].TargetField = <<>>
Alphabetic(s) == Len(s) > 0 /\ \A i \in DOMAIN s : IsLetter(s[i])
NoUpperCase(s) == \A i \in DOMAIN s : ~IsIn(s[i], UpperLetters)

\* C8 as stated: upper_case then lower_case on a field returns the original
\* value of every alphabetic field, mixed-case and upper-case ones included
UpperLowerRoundTrip ==
    ("transform" \in done /\ UpperThenLower /\ ~opt.dropNulls) =>
        \A i \in DOMAIN rows :
            (Has(rows[i], rules[1].Field) /\ Alphabetic(rows[i][rules[1].Field])) =>
                out.tr.data[i][rules[1].Field] = rows[i][rules[1].Field]
\* C8 amended: upper_case then lower_case on a field leaves the lower-cased
\* original value (the last rule wins and reads the original row), which is
\* the original value exactly when it holds no upper-case letter
UpperLowerGivesLower ==
    ("transform" \in done /\ UpperThenLower /\ ~opt.dropNulls) =>
        /\ Len(out.tr.data) = Len(rows)
        /\ \A i \in DOMAIN rows :
              (Has(rows[i], rules[1].Field) /\ Alphabetic(rows[i][rules[1].Field])) =>
                  LET before == rows[i][rules[1].Field]
                      after == out.tr.data[i][rules[1].Field]
                  IN  /\ Len(after) = Len(before)
                      /\ \A k \in DOMAIN before :
                            after[k] = IF IsIn(before[k], UpperLetters)
                                       THEN LowerLetters[IndexIn(before[k], UpperLetters)]
                                       ELSE before[k]
                      /\ (after = before <=> NoUpperCase(before))
\* a mixed-case value comes out lower-cased and a lower-case one unchanged
UpperLowerGivesLowerWitness ==
    /\ "transform" \in done /\ UpperThenLower /\ ~opt.dropNulls
    /\ \E i \in DOMAIN rows :
          /\ Has(rows[i], rules[1].Field) /\ Alphabetic(rows[i][rules[1].Field])
          /\ ~NoUpperCase(rows[i][rules[1].Field])
          /\ out.tr.data[i][rules[1].Field] # rows[i][rules[1].Field]
    /\ \E i \in DOMAIN rows :
          /\ Has(rows[i], rules[1].Field) /\ Alphabetic(rows[i][rules[1].Field])
          /\ NoUpperCase(rows[i][rules[1].Field])
          /\ out.tr.data[i][rules[1].Field] = rows[i][rules[1].Field]

\* a transform that ran to its end and dropped no row
TransformedAll == "transform" \in done /\ ~out.tr.panic /\ ~opt.dropNulls
Targets == {targetOf(rules[k]) : k \in DOMAIN rules}
\* the last rule that writes field f
LastRuleFor(f) ==
    CHOOSE k \in DOMAIN rules :
        targetOf(rules[k]) = f /\ \A m \in DOMAIN rules : m > k => targetOf(rules[m]) # f

\* C18: the rules are applied in list order, each writing its target field
\* (its source field when no target is given) over what is there: a field
\* holds the result of the last rule that targets it, and every rule
\* computes its result from the fields of the original row
RuleOrder ==
    TransformedAll =>
        /\ Len(out.tr.data) = Len(rows)
        /\ \A i \in DOMAIN rows : \A f \in Targets :
              /\ Has(out.tr.data[i], f)
              /\ out.tr.data[i][f] = applyTransformRule(rows[i], rules[LastRuleFor(f)]).s
\* two rules write one field in place; what is left is what the second
\* makes of the original value, which is neither what the first makes of it
\* nor what the second would make of the output of the first
RuleOrderWitness ==
    /\ TransformedAll /\ Len(rules) = 2 /\ Len(rows) >= 1
    /\ rules[1].Field = rules[2].Field
    /\ targetOf(rules[1]) = rules[1].Field /\ targetOf(rules[2]) = rules[1].Field
    /\ Has(rows[1], rules[1].Field)
    /\ LET f == rules[1].Field
           first == applyTransformRule(rows[1], rules[1]).s
           second == applyTransformRule(rows[1], rules[2]).s
           chained == applyTransformRule([rows[1] EXCEPT ![f] = first], rules[2]).s
       IN  /\ out.tr.data[1][f] = second
           /\ second # first
           /\ second # chained

\* the output rows against the input rows, one for one
RetainedFields ==
    TransformedAll =>
        /\ Len(out.tr.data) = Len(rows)
        /\ \A i \in DOMAIN rows :
              /\ \A f \in Targets :
                    out.tr.data[i][f] = applyTransformRule(rows[i], rules[LastRuleFor(f)]).s
              /\ IF opt.keepFields
                 THEN /\ DOMAIN out.tr.data[i] = DOMAIN rows[i] \cup Targets
                      /\ \A f \in DOMAIN rows[i] \ Targets : out.tr.data[i][f] = rows[i][f]
                 ELSE DOMAIN out.tr.data[i] = Targets
\* C19: with keepFields every original field that no rule targets is in the
\* output row with its original value, without keepFields the output row
\* holds the target fields of the rules and no other; the output has one
\* row for each input row, in order (dropNulls off), and the input rows
\* are never modified
FieldRetention == [](RetainedFields) /\ [][rows' = rows]_vars
\* a row with two fields, one of them rewritten in place and one kept, and
\* a row that loses its second field when the fields are not kept
FieldRetentionWitness ==
    /\ TransformedAll /\ Len(rows) = 2 /\ Len(rules) = 1
    /\ Targets = {name} /\ DOMAIN rows[1] = {name, age} /\ DOMAIN rows[2] = {name}
    /\ out.tr.data[1][name] # rows[1][name]
    /\ IF opt.keepFields
       THEN out.tr.data[1][age] = rows[1][age]
       ELSE DOMAIN out.tr.data[1] = {name}

\* a transform with dropNulls that ran to its end
TransformedDropping == "transform" \in done /\ ~out.tr.panic /\ opt.dropNulls
\* row i as transformed: the kept fields and what the rules wrote
TransformedRow(i) ==
    [f \in (IF opt.keepFields THEN DOMAIN rows[i] ELSE {}) \cup Targets |->
        IF f \in Targets THEN applyTransformRule(rows[i], rules[LastRuleFor(f)]).s
        ELSE rows[i][f]]
NoEmptyValue(row) == \A f \in DOMAIN row : row[f] # <<>>
\* the numbers of the rows whose transformed row has no empty value
KeptRows ==
    SelectSeq([i \in DOMAIN rows |-> i], LAMBDA i : NoEmptyValue(TransformedRow(i)))
\* the output is the transformed rows without empty value, in order
DropNullsExact ==
    /\ Len(out.tr.data) = Len(KeptRows)
    /\ \A k \in DOMAIN KeptRows : out.tr.data[k] = TransformedRow(KeptRows[k])

\* C20 as stated: with dropNulls the output is exactly the transformed rows
\* that hold no empty value among all their fields, in order, and a row
\* with a rule whose source field is missing is dropped
DropNullsMissingSource ==
    TransformedDropping =>
        /\ DropNullsExact
        /\ \A i \in DOMAIN rows :
              (\E k \in DOMAIN rules : ~Has(rows[i], rules[k].Field)) =>
                  \A m \in DOMAIN KeptRows : KeptRows[m] # i
\* C20 amended: with dropNulls the output is exactly the transformed rows
\* that hold no empty value among all their fields, in order; a rule whose
\* source field is missing writes an empty value, and the row is dropped
\* when no later rule writes the same target field
DropNullsLastMissingSource ==
    TransformedDropping =>
        /\ DropNullsExact
        /\ \A i \in DOMAIN rows :
              (\E f \in Targets : ~Has(rows[i], rules[LastRuleFor(f)].Field)) =>
                  \A m \in DOMAIN KeptRows : KeptRows[m] # i
\* the first row lacks the source field of the first rule and is kept,
\* the second rule having written the same target; the second row is
\* dropped for an empty value
DropNullsLastMissingSourceWitness ==
    /\ TransformedDropping /\ Len(rows) = 2 /\ Len(rules) = 2
    /\ ~Has(rows[1], rules[1].Field)
    /\ targetOf(rules[1]) = targetOf(rules[2])
    /\ Len(out.tr.data) = 1
    /\ out.tr.data[1] = TransformedRow(1)
    /\ ~NoEmptyValue(TransformedRow(2))

\* C11: with no input or output path, a run over rows in memory ends
\* without an error and without a crash, whatever the rows and the rules
\* are (an extract rule with a group index out of range included)
DataIssuesNeverFatal ==
    "transform" \in done => (~out.tr.panic /\ out.tr.err = NoError)

\* rule j is a conditional whose parameters give field, operator and value
IsConditional(j) ==
    /\ rules[j].Operation = Conditional
    /\ rules[j].Parameters.field.t = "string"
    /\ rules[j].Parameters.operator.t = "string"
    /\ rules[j].Parameters.value.t = "string"
TrueResult(j) ==
    IF rules[j].Parameters.true_result.t = "string" THEN rules[j].Parameters.true_result.s
    ELSE <<"t","r","u","e">>
FalseResult(j) ==
    IF rules[j].Parameters.false_result.t = "string" THEN rules[j].Parameters.false_result.s
    ELSE <<"f","a","l","s","e">>
\* what the last rule writing the target of rule j leaves in row i
Written(i, j) == out.tr.data[i][targetOf(rules[j])]

\* C28: a conditional rule whose parameters give field, operator and value
\* writes the true result or the false result, and the false result when the
\* field its parameters name is missing from the row, whether or not the
\* source field of the rule is in the row
ConditionalResult ==
    TransformedAll =>
        \A i \in DOMAIN rows : \A j \in DOMAIN rules :
            (IsConditional(j) /\ LastRuleFor(targetOf(rules[j])) = j) =>
                /\ Written(i, j) \in {TrueResult(j), FalseResult(j)}
                /\ ~Has(rows[i], rules[j].Parameters.field.s) =>
                      Written(i, j) = FalseResult(j)

\* ------------------------------------------------------------------ file entry points
\* err.Error(): the messages of the chain, outermost first, joined by ": "
RECURSIVE ErrorText(_)
ErrorText(err) ==
    IF Len(err) = 0 THEN <<>>
    ELSE IF Len(err) = 1 THEN err
    ELSE <<Head(err), ": ">> \o ErrorText(Tail(err))

ProcessingResult(success, processed, outputPath, errors, processor) ==
    [t |-> "ProcessingResult", Success |-> success, Processed |-> processed,
     OutputPath |-> outputPath, Errors |-> errors, Warnings |-> <<>>, Processor |-> processor]
\* a nil pointer in place of a result
NilResult == [t |-> "nil"]
\* a slice of a named element type, as the file entry points store their
\* rules in the options map: it is not a []interface{}
TypedSlice(type, elems) == [t |-> type, elems |-> elems]

\* what the three entry points that answer with a ProcessingResult build
\* from the outcome of ProcessData
fileResult(r, outputFile, processor) ==
    IF r.err # NoError
    THEN [result |-> ProcessingResult(FALSE, 0, <<>>, <<ErrorText(r.err)>>, processor),
          err |-> r.err, io |-> r.io, data |-> <<>>, panic |-> FALSE]
    ELSE [result |-> ProcessingResult(TRUE, Len(r.data), outputFile, <<>>, processor),
          err |-> NoError, io |-> r.io, data |-> r.data, panic |-> FALSE]

FilterByFile(inputFile, outputFile, ruleList, inclusive, fsys) ==
    fileResult(Filter_ProcessData(<<>>,
                   [input_file |-> StrV(inputFile), output_file |-> StrV(outputFile),
                    rules |-> TypedSlice("[]FilterRule", ruleList),
                    inclusive |-> BoolV(inclusive)], fsys),
               outputFile, "filter-data")

\* the possible outcomes
AggregateFile(inputFile, outputFile, ruleList, groupBy, fsys) ==
    { IF r.panic
      THEN [result |-> NilResult, err |-> NoError, io |-> r.io, data |-> <<>>, panic |-> TRUE]
      ELSE fileResult(r, outputFile, "aggregate-data") :
        r \in Aggregate_ProcessData(<<>>,
                 [input_file |-> StrV(inputFile), output_file |-> StrV(outputFile),
                  rules |-> TypedSlice("[]AggregateRule", ruleList),
                  group_by |-> TypedSlice("[]string", groupBy),
                  sort_by |-> NilV, sort_desc |-> NilV], fsys) }

ValidateFile(inputFile, outputFile, ruleList, failFast, fsys) ==
    LET r == Validate_ProcessData(<<>>,
                 [input_file |-> StrV(inputFile), output_file |-> StrV(outputFile),
                  rules |-> TypedSlice("[]ValidationRule", ruleList),
                  fail_fast |-> BoolV(failFast),
                  export_valid |-> NilV, export_invalid |-> NilV], fsys)
    IN  IF r.err # NoError
        THEN [result |-> NilResult, err |-> r.err, io |-> r.io, data |-> <<>>, panic |-> FALSE]
        ELSE [result |-> [t |-> "ValidationResult", ValidRows |-> Len(r.data),
                          InvalidRows |-> 0, TotalRows |-> Len(r.data), Errors |-> <<>>,
                          Warnings |-> <<>>, FieldStats |-> EmptyMap,
                          QualityScore |-> FloatOfInt(100)],
              err |-> NoError, io |-> r.io, data |-> r.data, panic |-> FALSE]

TransformFile(inputFile, outputFile, ruleList, keepFields, fsys) ==
    LET r == Transform_ProcessData(<<>>,
                 [input_file |-> StrV(inputFile), output_file |-> StrV(outputFile),
                  rules |-> TypedSlice("[]TransformRule", ruleList),
                  keep_fields |-> BoolV(keepFields), drop_nulls |-> NilV], fsys)
    IN  IF r.panic
        THEN [result |-> NilResult, err |-> NoError, io |-> r.io, data |-> <<>>, panic |-> TRUE]
        ELSE fileResult(r, outputFile, "transform-data")

\* ------------------------------------------------------------------ the engines on files
\* rows of one CSV file: every row has the columns of the header
FileRowPool ==
    { (name :> <<"A","l">>) @@ (age :> <<"3","0">>),
      (name :> <<"b","o">>) @@ (age :> <<"1","7">>),
      (name :> <<>>) @@ (age :> <<"x">>) }
inCsv == <<"i","n",".","c","s","v">>
outJson == <<"o","u","t",".","j","s","o","n">>

FileRulePool(engine) ==
    CASE engine = "filter" ->
           { FilterRule(age, <<"g","r","e","a","t","e","r","_","t","h","a","n">>,
                        FloatV(FloatOfInt(18))),
             FilterRule(name, <<"c","o","n","t","a","i","n","s">>, StrV(<<"l">>)) }
      [] engine = "aggregate" ->
           { AggregateRule(age, Count, <<>>), AggregateRule(age, Sum, <<>>) }
      [] engine = "validate" ->
           { ValidationRule(age, Numeric, NilV, <<>>),
             ValidationRule(city, Required, NilV, <<>>) }
      [] engine = "transform" ->
           { TransformRule(name, UpperCase, NoParams, <<>>),
             TransformRule(name, LowerCase, NoParams, <<"t">>) }

FileNotRun == [result |-> NilResult, err |-> NoError, io |-> <<>>, data |-> <<>>,
               panic |-> FALSE]

\* flag is inclusive, failFast or keepFields; groupBy is read by aggregate
InitFile ==
    /\ rows \in SeqsUpTo(FileRowPool, MaxRows - 1)
    /\ \E engine \in {"filter", "aggregate", "validate", "transform"} :
          /\ rules \in SeqsUpTo(FileRulePool(engine), MaxRules)
          /\ \E inputFile \in {<<>>, inCsv}, outputFile \in {<<>>, outJson},
                readOK \in BOOLEAN, writeOK \in BOOLEAN, flag \in BOOLEAN,
                groupBy \in (IF engine = "aggregate" THEN {<<>>, <<name>>} ELSE {<<>>}) :
                opt = [engine |-> engine, inputFile |-> inputFile, outputFile |-> outputFile,
                       readOK |-> readOK, writeOK |-> writeOK, flag |-> flag,
                       groupBy |-> groupBy]
    /\ done = {}
    /\ out = [file |-> FileNotRun]

Disk == [content |-> rows, readOK |-> opt.readOK, writeOK |-> opt.writeOK]

RunFilterByFile ==
    /\ opt.engine = "filter" /\ done = {}
    /\ out' = [out EXCEPT !.file =
                 FilterByFile(opt.inputFile, opt.outputFile, rules, opt.flag, Disk)]
    /\ done' = {"FilterByFile"}
    /\ UNCHANGED <<rows, rules, opt>>
RunAggregateFile ==
    /\ opt.engine = "aggregate" /\ done = {}
    /\ \E outcome \in AggregateFile(opt.inputFile, opt.outputFile, rules, opt.groupBy, Disk) :
          out' = [out EXCEPT !.file = outcome]
    /\ done' = {"AggregateFile"}
    /\ UNCHANGED <<rows, rules, opt>>
RunValidateFile ==
    /\ opt.engine = "validate" /\ done = {}
    /\ out' = [out EXCEPT !.file =
                 ValidateFile(opt.inputFile, opt.outputFile, rules, opt.flag, Disk)]
    /\ done' = {"ValidateFile"}
    /\ UNCHANGED <<rows, rules, opt>>
RunTransformFile ==
    /\ opt.engine = "transform" /\ done = {}
    /\ out' = [out EXCEPT !.file =
                 TransformFile(opt.inputFile, opt.outputFile, rules, opt.flag, Disk)]
    /\ done' = {"TransformFile"}
    /\ UNCHANGED <<rows, rules, opt>>

NextFile == RunFilterByFile \/ RunAggregateFile \/ RunValidateFile \/ RunTransformFile
SpecFile == InitFile /\ [][NextFile]_vars

\* the rows the entry point reads: those of the input file when one is named
RowsRead == IF opt.inputFile # <<>> THEN rows ELSE <<>>
ReadFails == opt.inputFile # <<>> /\ ~opt.readOK
Writes == {k \in DOMAIN out.file.io : out.file.io[k].op = "WriteJSON"}
Reads == {k \in DOMAIN out.file.io : out.file.io[k].op = "ReadCSV"}

\* C9: a file entry point gives what the in-memory operation gives on the rows
\* read with the caller's rules and flags: FilterByFile's Processed counts the
\* rows satisfying the rules, AggregateFile with a groupBy has a row per group
FileEqualsInMemory ==
    (done # {} /\ ~ReadFails /\ out.file.err = NoError /\ Len(RowsRead) > 0) =>
        /\ opt.engine = "filter" =>
              LET mem == Filter_ProcessData(RowsRead,
                            FilterOptions(<<>>, <<>>, RuleMaps(rules), BoolV(opt.flag)), NoFiles)
              IN  /\ out.file.data = mem.data
                  /\ out.file.result.Processed = Len(mem.data)
                  /\ opt.flag => out.file.result.Processed =
                                    Cardinality({i \in DOMAIN RowsRead :
                                                   SatisfiesAll(RowsRead[i])})
        /\ opt.engine = "aggregate" =>
              /\ \E mem \in Aggregate_ProcessData(RowsRead,
                               AggregateOptions(<<>>, <<>>, AggregateRuleMaps(rules),
                                                StringSlice(opt.groupBy), <<>>, FALSE),
                               NoFiles) :
                    out.file.data = mem.data
              /\ opt.groupBy # <<>> =>
                    out.file.result.Processed =
                        Cardinality({createGroupKey(RowsRead[i], opt.groupBy) :
                                       i \in DOMAIN RowsRead})
        /\ opt.engine = "validate" =>
              out.file.data =
                 Validate_ProcessData(RowsRead,
                     ValidateOptions(<<>>, <<>>, ValidationRuleMaps(rules), BoolV(opt.flag),
                                     NilV, NilV), NoFiles).data
        /\ opt.engine = "transform" =>
              out.file.data =
                 Transform_ProcessData(RowsRead,
                     TransformOptions(<<>>, <<>>, TransformRuleMaps(rules), BoolV(opt.flag),
                                      NilV), NoFiles).data

\* what every entry point does about its files: a failed read is returned as
\* a wrapped error and nothing is written; a write comes after the read
FileOrder ==
    /\ ReadFails => /\ Len(out.file.err) = 2
                    /\ out.file.err[1] = "failed to read input file"
                    /\ Writes = {}
    /\ \A w \in Writes : \A r \in Reads : r < w
    /\ \A w \in Writes : /\ out.file.io[w].path = opt.outputFile
                         /\ Reads # {} <=> opt.inputFile # <<>>
\* the answer of an entry point that returns a ProcessingResult
ProcessingResultOK ==
    /\ out.file.result.t = "ProcessingResult"
    /\ IF out.file.err # NoError
       THEN /\ ~out.file.result.Success
            /\ out.file.result.Processed = 0
            /\ out.file.result.Errors = <<ErrorText(out.file.err)>>
       ELSE /\ out.file.result.Success
            /\ out.file.result.Processed = Len(out.file.data)
            /\ \A w \in Writes : opt.engine \in {"filter", "transform"} =>
                  out.file.result.Processed = Len(out.file.io[w].data)

ValidatedInMemory ==
    Validate_ProcessData(RowsRead,
        ValidateOptions(<<>>, <<>>, ValidationRuleMaps(rules), BoolV(opt.flag), NilV, NilV),
        NoFiles)
ValidateFileReturned == done = {"ValidateFile"} /\ out.file.err = NoError

\* C21: the result of ValidateFile is built from the number of valid rows
\* alone: TotalRows and ValidRows are the number of rows that are valid
\* under the rules, InvalidRows is 0, there are no errors and no warnings
\* and the score is 100; it differs from the result of the validation in
\* memory when a row is invalid or a warning is given
ValidateFileTrivialResult ==
    ValidateFileReturned =>
        /\ out.file.result.ValidRows = ValidatedInMemory.result.ValidRows
        /\ out.file.result.TotalRows = out.file.result.ValidRows
        /\ out.file.result.InvalidRows = 0
        /\ out.file.result.Errors = <<>> /\ out.file.result.Warnings = <<>>
        /\ out.file.result.QualityScore = FloatOfInt(100)
        /\ (ValidatedInMemory.result.InvalidRows > 0
              \/ ValidatedInMemory.result.Warnings # <<>>) =>
                 \E f \in {"ValidRows", "InvalidRows", "TotalRows", "Errors", "Warnings",
                            "FieldStats", "QualityScore"} :
                    out.file.result[f] # ValidatedInMemory.result[f]

\* ------------------------------------------------------------------ CSVToJSONService
\* the last position of character c in s, 0 when there is none
LastIndex(s, c) ==
    IF \E i \in DOMAIN s : s[i] = c THEN CHOOSE i \in DOMAIN s : s[i] = c /\ \A j \in DOMAIN s : j > i => s[j] # c
    ELSE 0
\* filepath.Base of a clean path: what follows the last separator
filepathBase(path) ==
    IF Len(path) = 0 THEN <<".">> ELSE SubSeq(path, LastIndex(path, "/") + 1, Len(path))
\* filepath.Ext: from the last dot of the last element on, "" without a dot
filepathExt(path) ==
    IF LastIndex(path, ".") > LastIndex(path, "/")
    THEN SubSeq(path, LastIndex(path, "."), Len(path))
    ELSE <<>>
\* filepath.Join of a clean directory and a file name: an empty element is
\* left out
filepathJoin(dir, file) == IF Len(dir) = 0 THEN file ELSE dir \o <<"/">> \o file

\* the files of the batch: disk[path] says whether ReadCSV can open and
\* parse the file, the rows it then returns, and whether the file can be
\* created
FileAt(disk, path) ==
    [content |-> disk[path].content, readOK |-> disk[path].readOK,
     writeOK |-> disk[path].writeOK]
\* the file WriteJSON leaves: indented JSON, which csv.Reader refuses for its
\* bare quotes unless the data is empty ("null" is one header line, no row)
afterWrite(disk, path, data) ==
    [disk EXCEPT ![path] = [content |-> <<>>, readOK |-> Len(data) = 0, writeOK |-> TRUE]]

\* what ProcessData does once the file is read: the output file is named
\* after the input file when none is given, and the rows read are written
convertRows(inputFile, outputFile, data, disk) ==
    IF WriteJSON(FileAt(disk, outputFile), outputFile, data) # NoError
    THEN [data |-> <<>>,
          err |-> Wrap("failed to write JSON file",
                       WriteJSON(FileAt(disk, outputFile), outputFile, data)),
          io |-> <<ReadEvent(inputFile), WriteEvent(outputFile, data)>>, disk |-> disk]
    ELSE [data |-> data, err |-> NoError,
          io |-> <<ReadEvent(inputFile), WriteEvent(outputFile, data)>>,
          disk |-> afterWrite(disk, outputFile, data)]
convertRead(inputFile, outputFile, rd, disk) ==
    IF rd.err # NoError
    THEN [data |-> <<>>, err |-> Wrap("failed to read CSV file", rd.err),
          io |-> <<ReadEvent(inputFile)>>, disk |-> disk]
    ELSE convertRows(inputFile,
                     IF Len(outputFile) = 0
                     THEN TrimSuffix(inputFile, filepathExt(inputFile)) \o dotJson
                     ELSE outputFile,
                     rd.data, disk)
\* CSVToJSONService.ProcessData: the input rows are not read
CSVToJSON_ProcessData(options, disk) ==
    IF options.input_file.t # "string"
    THEN [data |-> <<>>, err |-> <<"input_file option is required">>, io |-> <<>>,
          disk |-> disk]
    ELSE convertRead(options.input_file.s,
                     IF options.output_file.t = "string" THEN options.output_file.s ELSE <<>>,
                     ReadCSV(FileAt(disk, options.input_file.s), options.input_file.s), disk)

convertResult(r, outputPath) ==
    IF r.err # NoError
    THEN [result |-> ProcessingResult(FALSE, 0, <<>>, <<ErrorText(r.err)>>, "csv-to-json"),
          err |-> r.err, io |-> r.io, disk |-> r.disk]
    ELSE [result |-> ProcessingResult(TRUE, Len(r.data), outputPath, <<>>, "csv-to-json"),
          err |-> NoError, io |-> r.io, disk |-> r.disk]
\* CSVToJSONService.ConvertFile: a result is returned with the error too
ConvertFile(inputPath, outputPath, disk) ==
    convertResult(CSVToJSON_ProcessData([input_file |-> StrV(inputPath),
                                         output_file |-> StrV(outputPath)], disk),
                  outputPath)

\* the output path BatchConvert gives an input path
batchOutputPath(inputPath, outputDir) ==
    filepathJoin(outputDir,
                 TrimSuffix(filepathBase(inputPath), filepathExt(filepathBase(inputPath)))
                 \o dotJson)
\* slip: the result of a file that failed is left out
batchAppend_SkipsFailed(results, converted) ==
    IF converted.err # NoError THEN results ELSE Append(results, converted.result)
\* the end of the loop body: the error is logged, the result is appended
batchAppend(results, converted) == Append(results, converted.result)
\* one turn of the loop of BatchConvert
batchTurn(b, converted) ==
    [b EXCEPT !.pos = b.pos + 1, !.results = batchAppend(b.results, converted),
              !.io = b.io \o converted.io, !.disk = converted.disk]

\* ------------------------------------------------------------------ batch conversion
\* input paths: two with one base name, one without extension, one that is
\* the output of another when the output directory is "o"
InputPathPool ==
    { <<"a",".","c","s","v">>, <<"d","/","a",".","c","s","v">>, <<"b">>,
      <<"o","/","a",".","j","s","o","n">> }
OutputDirPool == {<<>>, <<"o">>}
BatchPaths ==
    InputPathPool \cup {batchOutputPath(p, d) : p \in InputPathPool, d \in OutputDirPool}
BatchRowPool == { (name :> <<"A","l">>) @@ (age :> <<"3","0">>) }

\* the disk before the batch: the files of missing cannot be read, those of
\* locked cannot be created, every other file holds the rows
FirstDisk ==
    [p \in BatchPaths |->
        [content |-> rows, readOK |-> p \notin opt.missing, writeOK |-> p \notin opt.locked]]
BatchNotRun ==
    [pos |-> 0, results |-> <<>>, io |-> <<>>, disk |-> FirstDisk, returned |-> FALSE,
     err |-> NoError]

InitBatch ==
    /\ rows \in SeqsUpTo(BatchRowPool, MaxRows - 2)
    /\ rules = <<>>
    /\ \E inputPaths \in SeqsUpTo(InputPathPool, MaxRows), outputDir \in OutputDirPool,
          missing \in SUBSET InputPathPool :
          \E locked \in SUBSET {batchOutputPath(inputPaths[k], outputDir) :
                                   k \in DOMAIN inputPaths} :
             opt = [engine |-> "batch", inputPaths |-> inputPaths, outputDir |-> outputDir,
                    missing |-> missing, locked |-> locked]
    /\ done = {}
    /\ out = [batch |-> BatchNotRun]

\* the body of the loop for the next input path
BatchConvertFile ==
    /\ ~out.batch.returned /\ out.batch.pos < Len(opt.inputPaths)
    /\ out' = [out EXCEPT !.batch =
                 batchTurn(out.batch,
                           ConvertFile(opt.inputPaths[out.batch.pos + 1],
                                       batchOutputPath(opt.inputPaths[out.batch.pos + 1],
                                                       opt.outputDir),
                                       out.batch.disk))]
    /\ UNCHANGED <<rows, rules, opt, done>>
\* the loop is over: the results are returned with a nil error
BatchConvertReturn ==
    /\ ~out.batch.returned /\ out.batch.pos = Len(opt.inputPaths)
    /\ out' = [out EXCEPT !.batch.returned = TRUE, !.batch.err = NoError]
    /\ done' = {"BatchConvert"}
    /\ UNCHANGED <<rows, rules, opt>>

NextBatch == BatchConvertFile \/ BatchConvertReturn
SpecBatch == InitBatch /\ [][NextBatch]_vars

OutputPathOf(k) == batchOutputPath(opt.inputPaths[k], opt.outputDir)
\* the paths ReadCSV was asked for, in the order of the requests
PathsRead ==
    LET reads == SelectSeq(out.batch.io, LAMBDA e : e.op = "ReadCSV")
    IN  [k \in DOMAIN reads |-> reads[k].path]
\* no earlier file of the list was converted into the file that is input k
Untouched(k) ==
    \A j \in DOMAIN out.batch.results :
        (j < k /\ out.batch.results[j].Success) => OutputPathOf(j) # opt.inputPaths[k]
\* converting input file k by itself, on the files as they were
Alone(k) == ConvertFile(opt.inputPaths[k], OutputPathOf(k), FirstDisk)

\* C30: BatchConvert converts the input paths one after another in list
\* order and returns one result per path, in that order, with a nil error; a
\* file that fails gets a result with Success false, and the files after it
\* are converted as they are without it
BatchOneResultEach ==
    /\ Len(out.batch.results) = out.batch.pos
    /\ PathsRead = SubSeq(opt.inputPaths, 1, out.batch.pos)
    /\ out.batch.returned =>
          /\ out.batch.pos = Len(opt.inputPaths)
          /\ out.batch.err = NoError
    /\ \A k \in DOMAIN out.batch.results :
          /\ out.batch.results[k].Success => out.batch.results[k].OutputPath = OutputPathOf(k)
          /\ Untouched(k) =>
                /\ out.batch.results[k] = Alone(k).result
                /\ out.batch.results[k].Success = (Alone(k).err = NoError)
\* three files, the first cannot be read, the second cannot be written and
\* the third is converted
BatchOneResultEachWitness ==
    /\ out.batch.returned
    /\ Len(opt.inputPaths) = 3
    /\ Cardinality({opt.inputPaths[k] : k \in DOMAIN opt.inputPaths}) = 3
    /\ opt.inputPaths[1] \in opt.missing
    /\ opt.inputPaths[2] \notin opt.missing /\ OutputPathOf(2) \in opt.locked
    /\ ~out.batch.results[1].Success /\ ~out.batch.results[2].Success
    /\ out.batch.results[3].Success
    /\ out.batch.results[3].Processed = Len(rows) /\ Len(rows) > 0
    /\ Alone(3).result = out.batch.results[3]

====
